---- MODULE Spec2Model ----
(***************************************************************************)
(* A model of the WRF post-processing accessor (postprocess/wrfpp.py):     *)
(* the projection resolver (crs_pyproj and its two builders), the          *)
(* operations that depend on it (crs_cartopy, crs, ll2xy, xy2ll), the      *)
(* destaggering of arrays (staggered_dims, destagger) and the units        *)
(* normaliser (units, units_nice, check_units, units_mpl), the derived     *)
(* variables, and of the compilation script (compile/compile_WRF.py with   *)
(* compile/commons.py): its options and the steps of its main part.        *)
(*                                                                         *)
(* Conventions.                                                            *)
(*  - Angles (the longitude and latitude attributes) are fixed-point       *)
(*    integers counting 10^-(RoundDigits+1) degree, so that Python's       *)
(*    round(x, 4) is a computation on the model's values.                  *)
(*  - A call returns Ok(v) or raises: Err(exc, msg) keeps the Python       *)
(*    exception class and which raise statement produced it.               *)
(*  - Array values are kept in halves (the stored integer is twice the     *)
(*    value), so that the division by 2 of destagger is exact, as it is    *)
(*    in binary floating point.                                            *)
(***************************************************************************)
EXTENDS Integers, Sequences, FiniteSets, TLC

VARIABLES
    attrs,      \* the dataset's global attributes (self.attrs)
    array,      \* the xr.DataArray handed to staggered_dims / destagger
    vattrs,     \* the attributes of the variable whose units are read
    op,         \* the operation of the last step
    arg,        \* its argument
    result,     \* what the last call returned or raised (held by the caller)
    before,     \* the kind of result held when attrs was last mutated
    dataset,    \* the raw variables of the dataset derived variables read
    reads,      \* the (raw variable, slice) pairs the last access read
    script      \* a run of compile_WRF.py: its inputs, position and effects

vars ==
    <<attrs, array, vattrs, op, arg, result, before, dataset, reads, script>>

(***************************************************************************)
(* Results of calls                                                        *)
(***************************************************************************)
None == [kind |-> "none"]

Ok(v) == [kind |-> "ok", val |-> v]

Err(exc, msg) == [kind |-> "err", exc |-> exc, msg |-> msg]

IsOk(r) == r.kind = "ok"

IsErr(r) == r.kind = "err"

(***************************************************************************)
(* Fixed-point angles and Python's round(x, 4)                             *)
(***************************************************************************)
RoundDigits == 4

\* One degree, in the model's unit of 10^-(RoundDigits+1) degree.
Deg == 10 ^ (RoundDigits + 1)

\* round(x, RoundDigits): to the nearest multiple of 10 units, ties to even.
\* The value returned counts 10^-RoundDigits degree.
round4(v) ==
    LET q == v \div 10
        r == v % 10
    IN  IF r < 5 THEN q
        ELSE IF r > 5 THEN q + 1
        ELSE IF q % 2 = 0 THEN q ELSE q + 1

(***************************************************************************)
(* The dataset's global attributes                                         *)
(***************************************************************************)
\* MAP_PROJ_CHAR is optional: attrs.get("MAP_PROJ_CHAR", proj_name).
Absent == "<absent>"

attrs_get(a, key, default) == IF a[key] = Absent THEN default ELSE a[key]

(***************************************************************************)
(* crs_pyproj and its builders                                             *)
(***************************************************************************)
\* pyproj.CRS.from_dict(proj): the CRS is identified by the dictionary it
\* is built from.
CRS_from_dict(proj) == Ok(proj)

\* _crs_pyproj_lcc without its check of the central latitudes.
_crs_pyproj_lcc_no_lat_check(a) ==
    LET proj_name == "Lambert Conformal Conic"
        map_proj_char == attrs_get(a, "MAP_PROJ_CHAR", proj_name)
    IN  IF map_proj_char # proj_name
          THEN Err("ValueError", "Invalid value for MAP_PROJ_CHAR.")
        ELSE IF a.STAND_LON # a.CEN_LON
          THEN Err("ValueError", "Inconsistency in central longitude values.")
        ELSE CRS_from_dict([proj |-> "lcc",
                            lat_0 |-> a.CEN_LAT,
                            lon_0 |-> a.CEN_LON,
                            lat_1 |-> a.TRUELAT1,
                            lat_2 |-> a.TRUELAT2])

_crs_pyproj_lcc(a) ==
    LET proj_name == "Lambert Conformal Conic"
        map_proj_char == attrs_get(a, "MAP_PROJ_CHAR", proj_name)
    IN  IF map_proj_char # proj_name
          THEN Err("ValueError", "Invalid value for MAP_PROJ_CHAR.")
        ELSE IF a.STAND_LON # a.CEN_LON
          THEN Err("ValueError", "Inconsistency in central longitude values.")
        ELSE IF a.MOAD_CEN_LAT # a.CEN_LAT
          THEN Err("ValueError", "Inconsistency in central latitude values.")
        ELSE CRS_from_dict([proj |-> "lcc",
                            lat_0 |-> a.CEN_LAT,
                            lon_0 |-> a.CEN_LON,
                            lat_1 |-> a.TRUELAT1,
                            lat_2 |-> a.TRUELAT2])

\* The loop comparing the latitudes as they are, without rounding them.
TrueLatLoop_unrounded(a, which) ==
    \A i \in 1..Len(which) : a[which[i]] = a.CEN_LAT

\* The loop over ("TRUELAT1", "TRUELAT2", "MOAD_CEN_LAT"): TRUE iff no
\* iteration raises.
TrueLatLoop(a, which) ==
    \A i \in 1..Len(which) : round4(a[which[i]]) = round4(a.CEN_LAT)

_crs_pyproj_polarstereo(a) ==
    LET proj_name == "Polar Stereographic"
        map_proj_char == attrs_get(a, "MAP_PROJ_CHAR", proj_name)
    IN  IF map_proj_char # proj_name
          THEN Err("ValueError", "Invalid value for MAP_PROJ_CHAR.")
        ELSE IF a.STAND_LON # a.CEN_LON
          THEN Err("ValueError", "Inconsistency in central longitude values.")
        ELSE IF ~TrueLatLoop(a, <<"TRUELAT1", "TRUELAT2", "MOAD_CEN_LAT">>)
          THEN Err("ValueError", "Inconsistency in true latitude values.")
        ELSE CRS_from_dict([proj |-> "stere",
                            lat_0 |-> a.POLE_LAT,
                            lat_ts |-> a.TRUELAT1,
                            lon_0 |-> a.CEN_LON])

\* The projection codes WRF documents and this module does not implement.
UnsupportedCodes == {0, 102, 3, 4, 5, 6, 105, 203}

\* crs_pyproj with projection code 6 left out of the unsupported codes.
crs_pyproj_code6_invalid(a) ==
    IF a.POLE_LON # 0
      THEN Err("ValueError", "Invalid POLE_LON")
    ELSE IF a.POLE_LAT \notin {90 * Deg, -90 * Deg}
      THEN Err("ValueError", "Invalid value for attribute POLE_LAT.")
    ELSE LET proj == a.MAP_PROJ
         IN  IF proj = 1 THEN _crs_pyproj_lcc(a)
             ELSE IF proj = 2 THEN _crs_pyproj_polarstereo(a)
             ELSE IF proj \in UnsupportedCodes \ {6}
               THEN Err("NotImplementedError", "Projection code")
             ELSE Err("ValueError", "Invalid projection code")

\* crs_pyproj reading MAP_PROJ before it checks the pole attributes.
crs_pyproj_poles_last(a) ==
    LET proj == a.MAP_PROJ
    IN  IF proj \in UnsupportedCodes
          THEN Err("NotImplementedError", "Projection code")
        ELSE IF proj \notin {1, 2}
          THEN Err("ValueError", "Invalid projection code")
        ELSE IF a.POLE_LON # 0
          THEN Err("ValueError", "Invalid POLE_LON")
        ELSE IF a.POLE_LAT \notin {90 * Deg, -90 * Deg}
          THEN Err("ValueError", "Invalid value for attribute POLE_LAT.")
        ELSE IF proj = 1 THEN _crs_pyproj_lcc(a)
        ELSE _crs_pyproj_polarstereo(a)

crs_pyproj(a) ==
    IF a.POLE_LON # 0
      THEN Err("ValueError", "Invalid POLE_LON")
    ELSE IF a.POLE_LAT \notin {90 * Deg, -90 * Deg}
      THEN Err("ValueError", "Invalid value for attribute POLE_LAT.")
    ELSE LET proj == a.MAP_PROJ
         IN  IF proj = 1 THEN _crs_pyproj_lcc(a)
             ELSE IF proj = 2 THEN _crs_pyproj_polarstereo(a)
             ELSE IF proj \in UnsupportedCodes
               THEN Err("NotImplementedError", "Projection code")
             ELSE Err("ValueError", "Invalid projection code")

(***************************************************************************)
(* crs_cartopy, crs, ll2xy, xy2ll                                          *)
(***************************************************************************)
\* pyproj's CRS.to_dict(): the parameters the CRS was built from, plus the
\* defaults PROJ fills in.
to_dict(c) ==
    IF c.proj = "lcc"
      THEN [proj |-> "lcc", lat_0 |-> c.lat_0, lon_0 |-> c.lon_0,
            lat_1 |-> c.lat_1, lat_2 |-> c.lat_2,
            x_0 |-> 0, y_0 |-> 0, datum |-> "WGS84"]
      ELSE [proj |-> c.proj, lat_0 |-> c.lat_0, lat_ts |-> c.lat_ts,
            lon_0 |-> c.lon_0,
            x_0 |-> 0, y_0 |-> 0, datum |-> "WGS84"]

\* crs_cartopy falling back on a default projection when crs_pyproj raises.
crs_cartopy_best_effort(a) ==
    LET p == crs_pyproj(a)
    IN  IF IsErr(p) THEN Ok([class |-> "PlateCarree"])
        ELSE Ok([class |-> "Projection", proj |-> to_dict(p.val)])

crs_cartopy(a) ==
    LET p == crs_pyproj(a)
    IN  IF IsErr(p) THEN p
        ELSE LET proj == to_dict(p.val)
             IN  IF proj.proj = "lcc"
                   THEN Ok([class |-> "LambertConformal",
                            central_longitude |-> proj.lon_0,
                            central_latitude |-> proj.lat_0,
                            false_easting |-> proj.x_0,
                            false_northing |-> proj.y_0,
                            standard_parallels |-> <<proj.lat_1, proj.lat_2>>,
                            globe |-> proj.datum])
                 ELSE IF proj.proj = "stere"
                   THEN Ok([class |-> "Stereographic",
                            central_longitude |-> proj.lon_0,
                            central_latitude |-> proj.lat_0,
                            false_easting |-> proj.x_0,
                            false_northing |-> proj.y_0,
                            true_scale_latitude |-> proj.lat_ts,
                            globe |-> proj.datum])
                 ELSE Err("ValueError", "Unsupported projection")

crs(a) == crs_cartopy(a)

\* The pyproj Transformer between a CRS and its geodetic CRS.
_transformer_from_crs(c, reverse) ==
    LET fr == [geodetic_crs_of |-> c]
        to == c
    IN  IF reverse THEN [fr |-> to, to |-> fr, always_xy |-> TRUE]
                   ELSE [fr |-> fr, to |-> to, always_xy |-> TRUE]

\* tr.transform(u, v): the library's transform, applied symbolically.
transform(tr, u, v) == [transformer |-> tr, u |-> u, v |-> v]

ll2xy(a, lon, lat) ==
    LET c == crs(a)
    IN  IF IsErr(c) THEN c
        ELSE Ok(transform(_transformer_from_crs(c.val, FALSE), lon, lat))

xy2ll(a, x, y) ==
    LET c == crs(a)
    IN  IF IsErr(c) THEN c
        ELSE Ok(transform(_transformer_from_crs(c.val, TRUE), x, y))

(***************************************************************************)
(* Arrays: dims (names), shape (sizes) and data, a function of 0-based     *)
(* index tuples. Dimensions carry no coordinate index, as in WRF output,   *)
(* so arithmetic on two slices is positional.                              *)
(***************************************************************************)
MaxOf(seq) ==
    IF Len(seq) = 0 THEN 0
    ELSE CHOOSE m \in {seq[k] : k \in 1..Len(seq)} :
            \A k \in 1..Len(seq) : seq[k] <= m

Indices(shape) ==
    {t \in [1..Len(shape) -> 0..(MaxOf(shape) - 1)] :
        \A k \in 1..Len(shape) : t[k] < shape[k]}

\* name in array.dims
InDims(name, dims) == \E k \in 1..Len(dims) : dims[k] = name

\* array.dims.index(name), 1-based here
dims_index(dims, name) == CHOOSE k \in 1..Len(dims) : dims[k] = name

\* The bounds Python gives slice(start, stop) on an axis of length n.
slice_bound(x, n) ==
    IF x < 0 THEN (IF x + n < 0 THEN 0 ELSE x + n)
    ELSE IF x > n THEN n ELSE x

slice_len(start, stop, n) ==
    LET lo == slice_bound(start, n)
        hi == slice_bound(stop, n)
    IN  IF hi > lo THEN hi - lo ELSE 0

(***************************************************************************)
(* staggered_dims and destagger                                            *)
(***************************************************************************)
\* dim=None
NoDim == "<None>"

StaggerableDims == <<"west_east", "south_north", "bottom_top">>

stag_name(dim) == dim \o "_stag"

\* The loop of staggered_dims that never raises on a dimension present in
\* both forms.
RECURSIVE staggered_dims_loop_no_check(_, _, _)
staggered_dims_loop_no_check(arr, i, dims) ==
    IF i > Len(StaggerableDims) THEN Ok(dims)
    ELSE LET dim == StaggerableDims[i]
             staggered == InDims(stag_name(dim), arr.dims)
         IN  IF staggered
               THEN staggered_dims_loop_no_check(arr, i + 1, Append(dims, dim))
               ELSE staggered_dims_loop_no_check(arr, i + 1, dims)

\* The for loop of staggered_dims from the i-th dimension on, with the
\* staggered dimensions found so far.
RECURSIVE staggered_dims_loop(_, _, _)
staggered_dims_loop(arr, i, dims) ==
    IF i > Len(StaggerableDims) THEN Ok(dims)
    ELSE LET dim == StaggerableDims[i]
             not_staggered == InDims(dim, arr.dims)
             staggered == InDims(stag_name(dim), arr.dims)
         IN  IF not_staggered /\ staggered
               THEN Err("ValueError",
                        "Dimension " \o dim \o " present in both forms.")
             ELSE IF staggered
               THEN staggered_dims_loop(arr, i + 1, Append(dims, dim))
             ELSE staggered_dims_loop(arr, i + 1, dims)

staggered_dims(arr) == staggered_dims_loop(arr, 1, <<>>)

\* The test on the number of staggered dimensions accepting several.
not_exactly_one_zero_only(dims) == Len(dims) = 0

\* len(staggered_dims) != 1
not_exactly_one(dims) == Len(dims) # 1

\* The sum of the two slices, not halved.
average_not_halved(x, y) == x + y

\* (x + y) / 2 on values kept in halves: exact, as the inputs are whole.
average(x, y) == (x + y) \div 2

\* out.rename({dim_stag: dim}). When the array already has a dimension
\* named dim, what xarray does depends on its version: lib is "raise" (the
\* rename is refused) or "rename" (the name ends up twice in dims).
rename(out, idx, dim, lib) ==
    IF InDims(dim, out.dims) /\ lib = "raise"
      THEN Err("ValueError", "rename: the new name conflicts")
      ELSE Ok([out EXCEPT !.dims[idx] = dim])

destagger(arr, dim_arg, lib) ==
    LET sd == staggered_dims(arr)
    IN  IF dim_arg = NoDim /\ IsErr(sd) THEN sd
        ELSE IF dim_arg = NoDim /\ not_exactly_one(sd.val)
          THEN Err("ValueError",
                   "Array has zero or more than one staggered dimension(s).")
        ELSE
          LET dim == IF dim_arg = NoDim THEN sd.val[1] ELSE dim_arg
              dim_stag == stag_name(dim)
          IN  IF ~InDims(dim_stag, arr.dims)
                THEN Err("ValueError", "tuple.index(x): x not in tuple")
              ELSE
                LET idx == dims_index(arr.dims, dim_stag)
                    n == arr.shape[idx]
                    \* slices_1 is [0, n-1) and slices_2 is [1, n) on the
                    \* axis: both have the same length
                    len_1 == slice_len(0, n - 1, n)
                    shape == [arr.shape EXCEPT ![idx] = len_1]
                    out == [dims |-> arr.dims,
                            shape |-> shape,
                            data |-> [t \in Indices(shape) |->
                                average(arr.data[t],
                                        arr.data[[t EXCEPT ![idx] = @ + 1]])]]
                IN  rename(out, idx, dim, lib)

(***************************************************************************)
(* Units: strings are sequences of characters                              *)
(***************************************************************************)
\* Python's None where a string is expected: no string, as its one element
\* is not a character.
PyNone == <<"<None>">>

u_dash == <<"-">>

u_one == <<"1">>

u_m2_per_s2 == <<"m", "2", "/", "s", "2">>

u_kg_per_m2 == <<"k", "g", "/", "m", "2">>

u_kg_per_s_m2 == <<"k", "g", "/", "(", "s", "*", "m", "2", ")">>

u_kg_per_m2_s == <<"k", "g", "/", "(", "m", "2", "*", "s", ")">>

u_kg_per_m2_per_s == <<"k", "g", "/", "m", "2", "/", "s">>

u_W_m_brace == <<"W", " ", "m", "{", "-", "2", "}">>

n_m2_s2 == <<"m", "2", " ", "s", "-", "2">>

n_kg_m2 == <<"k", "g", " ", "m", "-", "2">>

n_kg_m2_s1 == <<"k", "g", " ", "m", "-", "2", " ", "s", "-", "1">>

n_W_m2 == <<"W", " ", "m", "-", "2">>

\* The dictionary of units_nice.
replacements ==
    (u_dash :> PyNone) @@
    (u_one :> PyNone) @@
    (u_m2_per_s2 :> n_m2_s2) @@
    (u_kg_per_m2 :> n_kg_m2) @@
    (u_kg_per_s_m2 :> n_kg_m2_s1) @@
    (u_kg_per_m2_s :> n_kg_m2_s1) @@
    (u_kg_per_m2_per_s :> n_kg_m2_s1) @@
    (u_W_m_brace :> n_W_m2)

\* The dictionary without its entry for "kg/m2/s".
replacements_missing_entry ==
    (u_dash :> PyNone) @@
    (u_one :> PyNone) @@
    (u_m2_per_s2 :> n_m2_s2) @@
    (u_kg_per_m2 :> n_kg_m2) @@
    (u_kg_per_s_m2 :> n_kg_m2_s1) @@
    (u_kg_per_m2_s :> n_kg_m2_s1) @@
    (u_W_m_brace :> n_W_m2)

\* units reading attribute "unit" before attribute "units".
units_unit_first(va) ==
    IF "unit" \in DOMAIN va THEN Ok(va["unit"])
    ELSE IF "units" \in DOMAIN va THEN Ok(va["units"])
    ELSE Err("KeyError", "unit")

\* units(varname), on the attributes of the variable.
units(va) ==
    IF "units" \in DOMAIN va THEN Ok(va["units"])
    ELSE IF "unit" \in DOMAIN va THEN Ok(va["unit"])
    ELSE Err("KeyError", "unit")

\* units_nice looking the units up in a dictionary that lacks "kg/m2/s".
units_nice_missing_entry(va) ==
    LET u == units(va)
    IN  IF IsErr(u) THEN u
        ELSE IF u.val \in DOMAIN replacements_missing_entry
          THEN Ok(replacements_missing_entry[u.val])
        ELSE u

\* units_nice(varname), on the attributes of the variable.
units_nice(va) ==
    LET u == units(va)
    IN  IF IsErr(u) THEN u
        ELSE IF u.val \in DOMAIN replacements
          THEN Ok(replacements[u.val])
        ELSE u

\* raise ValueError('Bad units: expected "%s", got "%s"' % (expected, actual))
BadUnits(expected, actual) ==
    [kind |-> "err", exc |-> "ValueError", msg |-> "Bad units",
     expected |-> expected, actual |-> actual]

\* check_units(varname, expected, nice), on the attributes of the variable.
\* It returns None when the units are as expected.
check_units(va, expected, nice) ==
    LET actual == IF nice THEN units_nice(va)
                  ELSE IF "units" \in DOMAIN va THEN Ok(va["units"])
                  ELSE Err("KeyError", "units")
    IN  IF IsErr(actual) THEN actual
        ELSE IF actual.val # expected THEN BadUnits(expected, actual.val)
        ELSE Ok(PyNone)

(***************************************************************************)
(* _units_mpl: formatting of units for Matplotlib                          *)
(***************************************************************************)

\* The characters str.split() separates on.
Whitespace == {" ", "\t", "\n"}

\* The characters of the string "-0123456789".
ExponentChars == {"-", "0", "1", "2", "3", "4", "5", "6", "7", "8", "9"}

\* units.split(): the maximal runs of non-whitespace characters, in order.
RECURSIVE split_loop(_, _, _, _)
split_loop(str, i, cur, acc) ==
    IF i > Len(str)
      THEN IF cur = <<>> THEN acc ELSE Append(acc, cur)
    ELSE IF str[i] \in Whitespace
      THEN split_loop(str, i + 1, <<>>,
                      IF cur = <<>> THEN acc ELSE Append(acc, cur))
    ELSE split_loop(str, i + 1, Append(cur, str[i]), acc)

split(str) == split_loop(str, 1, <<>>, <<>>)

\* " ".join(split)
RECURSIVE join(_)
join(tokens) ==
    IF tokens = <<>> THEN <<>>
    ELSE IF Len(tokens) = 1 THEN tokens[1]
    ELSE tokens[1] \o <<" ">> \o join(Tail(tokens))

\* The while loop: n (0-based) moves left over the trailing exponent
\* characters of s, starting from n; s[n] is the model's s[n + 1].
RECURSIVE exponent_scan(_, _)
exponent_scan(tok, n) ==
    IF n >= 0 /\ tok[n + 1] \in ExponentChars
      THEN exponent_scan(tok, n - 1)
      ELSE n

\* The test "n < 0" guarding the ValueError, failing to fire.
no_base_off_by_one(n) == n < -1

\* The test "n < 0" guarding the ValueError.
no_base(n) == n < 0

\* "%s$^{%s}$" % (base, exponent)
superscript(base, exponent) ==
    base \o <<"$", "^", "{">> \o exponent \o <<"}", "$">>

\* The body of the for loop on one token.
format_token(tok) ==
    LET n == exponent_scan(tok, Len(tok) - 1)
    IN  IF no_base(n) THEN Err("ValueError", "Could not process units.")
        ELSE IF n # Len(tok)
          THEN Ok(superscript(SubSeq(tok, 1, n + 1),
                              SubSeq(tok, n + 2, Len(tok))))
          ELSE Ok(tok)

\* The for loop: the tokens are rewritten in order, the first failure is
\* raised.
RECURSIVE format_tokens(_)
format_tokens(tokens) ==
    IF tokens = <<>> THEN Ok(<<>>)
    ELSE LET head == format_token(tokens[1])
         IN  IF IsErr(head) THEN head
             ELSE LET rest == format_tokens(Tail(tokens))
                  IN  IF IsErr(rest) THEN rest
                      ELSE Ok(<<head.val>> \o rest.val)

_units_mpl(str) ==
    LET formatted == format_tokens(split(str))
    IN  IF IsErr(formatted) THEN formatted ELSE Ok(join(formatted.val))

\* units_mpl(varname): None has no method split.
units_mpl(va) ==
    LET u == units_nice(va)
    IN  IF IsErr(u) THEN u
        ELSE IF u.val = PyNone THEN Err("AttributeError", "split")
        ELSE _units_mpl(u.val)

(***************************************************************************)
(* Derived variables. The dataset keeps one column per time: the raw       *)
(* variables have dims (Time, bottom_top), PH and PHB (Time,               *)
(* bottom_top_stag), RAINNC and RAINC (Time); the horizontal dimensions,   *)
(* on which every derivation is pointwise, are left out.                   *)
(***************************************************************************)
\* No dataset of raw variables is open.
NoDataset == [kind |-> "none"]

\* slice(None), written ":" in a subscript
Full == [kind |-> "all"]

\* slice(start, stop)
Range(start, stop) == [kind |-> "range", start |-> start, stop |-> stop]

\* The slice args gives axis k: the axes after the last one of args are
\* taken whole.
axis_slice(args, k) == IF k <= Len(args) THEN args[k] ELSE Full

axis_start(sl, n) == IF sl.kind = "all" THEN 0 ELSE slice_bound(sl.start, n)

axis_len(sl, n) ==
    IF sl.kind = "all" THEN n ELSE slice_len(sl.start, sl.stop, n)

\* xarray.DataArray.__getitem__(*args) with a tuple of slices.
getitem(arr, args) ==
    IF Len(args) > Len(arr.dims)
      THEN Err("IndexError", "too many indices for array")
      ELSE
        LET shape == [k \in 1..Len(arr.dims) |->
                        axis_len(axis_slice(args, k), arr.shape[k])]
        IN  Ok([dims |-> arr.dims,
                shape |-> shape,
                data |-> [t \in Indices(shape) |->
                    arr.data[[k \in 1..Len(t) |->
                        t[k] + axis_start(axis_slice(args, k),
                                          arr.shape[k])]]]])

\* The sum keeping the first operand only.
add_left_only(a, b) == a

\* a + b on two arrays of the same dims and shape.
add(a, b) ==
    [dims |-> a.dims,
     shape |-> a.shape,
     data |-> [t \in Indices(a.shape) |-> a.data[t] + b.data[t]]]

\* xr.DataArray(data, name=name, attrs=dict(long_name=..., units=...))
DataArray(data, name, long_name, units_attr) ==
    [dims |-> data.dims,
     shape |-> data.shape,
     data |-> data.data,
     name |-> name,
     attrs |-> [long_name |-> long_name, units |-> units_attr]]

\* What an access did: out is what it returned or raised, reads the
\* (raw variable, slice) pairs it read up to there.
Eval(out, reads_done) == [out |-> out, reads |-> reads_done]

\* constants["pot_temp_t0"], in K
pot_temp_t0 == 300

\* p_threshold = 1e4, in Pa
p_threshold == 10000

u_Pa == <<"P", "a">>
u_K == <<"K">>
u_mm == <<"m", "m">>
u_kg_kg1 == <<"k", "g", " ", "k", "g", "-", "1">>
u_kg_m3 == <<"k", "g", " ", "m", "-", "3">>
u_percent == <<"%">>

Min(S) == CHOOSE m \in S : \A x \in S : m <= x

Max(S) == CHOOSE m \in S : \A x \in S : x <= m

\* The sum of two sliced variables with the units of the second one left
\* unchecked.
sum_of_second_unchecked(check_a, check_b, a, b, read_a, read_b) ==
    IF IsErr(check_a) THEN Eval(check_a, {})
    ELSE IF IsErr(a) THEN Eval(a, {read_a})
    ELSE IF IsErr(b) THEN Eval(b, {read_a, read_b})
    ELSE Eval(Ok(add(a.val, b.val)), {read_a, read_b})

\* The sum of two sliced variables once their units have been checked:
\* the first error of the two checks and the two subscripts, if any.
sum_of(check_a, check_b, a, b, read_a, read_b) ==
    IF IsErr(check_a) THEN Eval(check_a, {})
    ELSE IF IsErr(check_b) THEN Eval(check_b, {})
    ELSE IF IsErr(a) THEN Eval(a, {read_a})
    ELSE IF IsErr(b) THEN Eval(b, {read_a, read_b})
    ELSE Eval(Ok(add(a.val, b.val)), {read_a, read_b})

\* The two check_units calls and the sum of the two sliced variables, as
\* WRFGeopotential, WRFAtmPressure and WRFAccumulatedPrecipitation do.
checked_sum(ds, varname_a, varname_b, expected_units, args) ==
    sum_of(check_units(ds[varname_a].attrs, expected_units, TRUE),
           check_units(ds[varname_b].attrs, expected_units, TRUE),
           getitem(ds[varname_a], args),
           getitem(ds[varname_b], args),
           <<varname_a, args>>, <<varname_b, args>>)

\* The result of an evaluation, labelled when it is an array.
labelled(e, name, long_name, units_attr) ==
    IF IsErr(e.out) THEN e
    ELSE Eval(Ok(DataArray(e.out.val, name, long_name, units_attr)), e.reads)

\* The evaluation of a cell-by-cell expression fn of the evaluations in
\* operands (a sequence, in the order the code evaluates them), after the
\* reads in reads_before: the first error, or the array whose cells keep
\* the floating-point value as the expression of its operands.
RECURSIVE reads_upto(_, _)
reads_upto(operands, n) ==
    IF n = 0 THEN {} ELSE reads_upto(operands, n - 1) \cup operands[n].reads

expression(fn, operands, reads_before) ==
    LET failed == {n \in 1..Len(operands) : IsErr(operands[n].out)}
    IN  IF failed # {}
          THEN Eval(operands[Min(failed)].out,
                    reads_before \cup reads_upto(operands, Min(failed)))
          ELSE
            LET first == operands[1].out.val
            IN  Eval(Ok([dims |-> first.dims,
                         shape |-> first.shape,
                         data |-> [t \in Indices(first.shape) |->
                            [fn |-> fn,
                             of |-> [n \in 1..Len(operands) |->
                                        operands[n].out.val.data[t]]]]]),
                     reads_before \cup reads_upto(operands, Len(operands)))

WRFGeopotential(ds, args) ==
    labelled(checked_sum(ds, "PH", "PHB", n_m2_s2, args),
             "geopotential", "Geopotential", n_m2_s2)

\* pot_temp_t0 + self._dataset[varname].__getitem__(*args)
plus_pot_temp_t0(check, t, read) ==
    IF IsErr(check) THEN Eval(check, {})
    ELSE IF IsErr(t) THEN Eval(t, {read})
    ELSE Eval(Ok([t.val EXCEPT !.data =
                    [i \in DOMAIN @ |-> pot_temp_t0 + @[i]]]), {read})

WRFPotentialTemperature(ds, args) ==
    labelled(plus_pot_temp_t0(check_units(ds["T"].attrs, u_K, TRUE),
                              getitem(ds["T"], args), <<"T", args>>),
             "potential temperature", "Potential temperature", u_K)

WRFAtmPressure(ds, args) ==
    labelled(checked_sum(ds, "P", "PB", u_Pa, args),
             "atmospheric pressure", "Atmospheric pressure", u_Pa)

\* pot_temp * (pressure / pot_temp_p0) ** exponent
WRFAirTemperature(ds, args) ==
    labelled(expression("air_temperature",
                        <<WRFPotentialTemperature(ds, args),
                          WRFAtmPressure(ds, args)>>, {}),
             "air temperature", "Air temperature", u_K)

\* pressure / (r_air * air_temp)
WRFDensityOfDryAir(ds, args) ==
    labelled(expression("density_of_dry_air",
                        <<WRFAtmPressure(ds, args),
                          WRFAirTemperature(ds, args)>>, {}),
             "dry air density", "Dry air density", u_kg_m3)

\* wrf.check_units(varname, expected_units), then
\* q = wrf[varname].__getitem__(*args)
checked_item(check, q, read) ==
    IF IsErr(check) THEN Eval(check, {}) ELSE Eval(q, {read})

\* 100 * q / qsat, where qsat is computed from the air temperature and
\* the pressure.
WRFRelativeHumidity(ds, args) ==
    labelled(expression("relative_humidity",
                        <<checked_item(
                            check_units(ds["QVAPOR"].attrs, u_kg_kg1, TRUE),
                            getitem(ds["QVAPOR"], args),
                            <<"QVAPOR", args>>),
                          WRFAirTemperature(ds, args),
                          WRFAtmPressure(ds, args)>>, {}),
             "relative humidity", "Relative humidity", u_percent)

WRFAccumulatedPrecipitation(ds, args) ==
    labelled(checked_sum(ds, "RAINNC", "RAINC", u_mm, args),
             "accumulated total precipitation",
             "Accumulated total precipitation", u_mm)

\* The levels of the column at time t whose pressure is below that of the
\* bottom level by more than p_threshold: where diff < 0. The empty set is
\* the column on which min() gives NaN.
levels_below(p, t) ==
    {k \in 0..(p.shape[2] - 1) :
        p.data[<<t, k>>] - (p.data[<<t, 0>>] - p_threshold) < 0}

\* np.where(idx > 0, idx - 1, 0)
idx_low(idx) == IF idx > 0 THEN idx - 1 ELSE 0

\* idx_high with nz - 2 where the code has nz - 1.
idx_high_below_top(low, nz) == IF low < nz - 2 THEN low + 1 ELSE nz - 2

\* np.where(idx_low < nz - 2, idx_low + 1, nz - 1)
idx_high(low, nz) == IF low < nz - 2 THEN low + 1 ELSE nz - 1

\* What numpy and xarray raise on operands whose shapes do not agree.
ShapeError == Err("ValueError", "operands could not be broadcast together")

\* The outcomes of an operation on arrays combined by position, on a
\* dataset of nt times, when nothing else fails: next.
by_position(nt, reads_done, next) ==
    IF nt > 1 THEN {Eval(ShapeError, reads_done)} \cup next ELSE next

\* The end of WRFSeaLevelPressure.__getitem__, from the geopotential on:
\* p_bottom is the pressure subscripted with slice(0, 1) on bottom_top.
\* The method ends without a return statement: it returns None.
slp_elevation(nt, ph, destaggered, p_bottom, reads_t) ==
    IF IsErr(ph.out) THEN {Eval(ph.out, reads_t \cup ph.reads)}
    ELSE IF IsErr(destaggered)
      THEN {Eval(destaggered, reads_t \cup ph.reads)}
    ELSE IF IsErr(p_bottom.out)
      THEN {Eval(p_bottom.out, reads_t \cup ph.reads \cup p_bottom.reads)}
    ELSE by_position(nt, reads_t \cup ph.reads \cup p_bottom.reads,
                     {Eval(Ok(None),
                           reads_t \cup ph.reads \cup p_bottom.reads)})

\* WRFSeaLevelPressure.__getitem__ from the humidity on, for a dataset of
\* nt times whose highest extrapolation level is top. idx keeps the
\* dimension order of diff.bottom_top.where(...), and the arrays taken
\* along it are combined by position with arrays read with other slices:
\* on one time every shape is (1, 1) and the arithmetic goes through; on
\* several times whether a shape error is raised depends on the order
\* xarray gives the dimensions of idx, and both outcomes are kept.
slp_extrapolate(nt, top, reads_p, check_q, t, elevation) ==
    IF IsErr(check_q) THEN {Eval(check_q, reads_p)}
    ELSE IF IsErr(t.out)
      THEN {Eval(t.out, reads_p \cup {<<"QVAPOR", <<Full>>>>} \cup t.reads)}
    ELSE IF top >= t.out.val.shape[dims_index(t.out.val.dims, "bottom_top")]
      THEN {Eval(Err("IndexError", "index out of bounds"),
                 reads_p \cup {<<"QVAPOR", <<Full>>>>} \cup t.reads)}
    ELSE by_position(nt,
                     reads_p \cup {<<"QVAPOR", <<Full>>>>} \cup t.reads,
                     elevation)

\* The highest of the levels used for extrapolation in the pressure p,
\* whose every column has a level below the threshold.
top_level(nz, p) ==
    Max({idx_high(idx_low(Min(levels_below(p, t))), nz) :
            t \in 0..(p.shape[1] - 1)})

\* The search of the extrapolation levels in the whole pressure p: the
\* failure of the method up to there, if any.
slp_levels(nz, p) ==
    IF IsErr(p.out) THEN {p}
    ELSE IF \E t \in 0..(p.out.val.shape[1] - 1) :
                levels_below(p.out.val, t) = {}
      THEN {Eval(Err("ValueError",
                     "Could not find all levels for extrapolation."),
                 p.reads)}
    ELSE IF \E t \in 0..(p.out.val.shape[1] - 1) :
                idx_low(Min(levels_below(p.out.val, t)))
                = idx_high(idx_low(Min(levels_below(p.out.val, t))), nz)
      THEN {Eval(Err("ValueError", "Levels for extrapolation are equal."),
                 p.reads)}
    ELSE {}

\* The method once the levels are found in the whole pressure p.
slp_found(ds, args, nz, p) ==
    slp_extrapolate(
        p.out.val.shape[1], top_level(nz, p.out.val), p.reads,
        check_units(ds["QVAPOR"].attrs, u_kg_kg1, TRUE),
        WRFAirTemperature(ds, args),
        slp_elevation(
            p.out.val.shape[1],
            WRFGeopotential(ds, <<Full>>),
            destagger(WRFGeopotential(ds, <<Full>>).out.val,
                      "bottom_top", "raise"),
            WRFAtmPressure(ds,
                [k \in 1..Len(ds["P"].dims) |->
                    IF ds["P"].dims[k] = "bottom_top"
                      THEN Range(0, 1) ELSE Full]),
            p.reads \cup {<<"QVAPOR", <<Full>>>>}
                \cup WRFAirTemperature(ds, args).reads))

\* nz = wrf.sizes["bottom_top"]
sizes_bottom_top(ds) == ds["P"].shape[dims_index(ds["P"].dims, "bottom_top")]

\* WRFSeaLevelPressure.__getitem__: the set of its possible outcomes.
\* p[:], p.isel, p.values and p.dims all evaluate the whole pressure, and
\* wrf[varname_q] is the whole humidity.
WRFSeaLevelPressure(ds, args) ==
    IF slp_levels(sizes_bottom_top(ds), WRFAtmPressure(ds, <<Full>>)) # {}
      THEN slp_levels(sizes_bottom_top(ds), WRFAtmPressure(ds, <<Full>>))
      ELSE slp_found(ds, args, sizes_bottom_top(ds),
                     WRFAtmPressure(ds, <<Full>>))

\* The index array each np.take_along_axis of the method is given, for the
\* column at time of the pressure p whose levels were found: idx_low or
\* idx_high of that column.
slp_taken(nz, p, time) ==
    LET low == idx_low(Min(levels_below(p, time)))
        high == idx_high(low, nz)
    IN  [p_low |-> low, p_high |-> high,
         q_low |-> low, q_high |-> high,
         t_low |-> low, t_high |-> high,
         z_low |-> low, z_high |-> low]

\* z = ph.values / constants["g"], ph the destaggered whole geopotential:
\* a cell keeps the floating-point quotient as its two operands.
slp_z(ds) ==
    LET ph == destagger(WRFGeopotential(ds, <<Full>>).out.val,
                        "bottom_top", "raise").val
    IN  [t \in Indices(ph.shape) |->
            [fn |-> "divide", of |-> <<ph.data[t], "g">>]]

\* z_low and z_high of the column at time: z taken along bottom_top at
\* the index array of slp_taken.
slp_z_low(ds, time) ==
    slp_z(ds)[<<time,
                slp_taken(sizes_bottom_top(ds),
                          WRFAtmPressure(ds, <<Full>>).out.val,
                          time).z_low>>]

slp_z_high(ds, time) ==
    slp_z(ds)[<<time,
                slp_taken(sizes_bottom_top(ds),
                          WRFAtmPressure(ds, <<Full>>).out.val,
                          time).z_high>>]

\* No run of the compilation script.
NoScript == [pc |-> "none"]

(***************************************************************************)
(* Inputs of the projection specifications                                 *)
(***************************************************************************)
PoleLonValues == {0, Deg}

PoleLatValues == {90 * Deg, -90 * Deg, 0}

\* 1 and 2, the eight unsupported codes, and codes WRF does not document.
MapProjValues == {1, 2} \cup UnsupportedCodes \cup {7, -1}

MapProjCharValues ==
    {Absent, "Lambert Conformal Conic", "Polar Stereographic", "Mercator"}

LonValues == {0, 10 * Deg}

\* 70, 70.00004 (rounds to 70.0000) and 70.00006 (rounds to 70.0001).
LatValues == {70 * Deg, 70 * Deg + 4, 70 * Deg + 6}

AttrsDomain ==
    [POLE_LON : PoleLonValues, POLE_LAT : PoleLatValues,
     MAP_PROJ : MapProjValues, MAP_PROJ_CHAR : MapProjCharValues,
     STAND_LON : LonValues, CEN_LON : LonValues,
     CEN_LAT : LatValues, MOAD_CEN_LAT : LatValues,
     TRUELAT1 : LatValues, TRUELAT2 : LatValues]

\* Points handed to ll2xy / xy2ll.
Points == {<<0, 70 * Deg>>, <<10 * Deg, 80 * Deg>>}

NoArray == [dims |-> <<>>, shape |-> <<>>, data |-> <<>>]

NoVattrs == <<>>

(***************************************************************************)
(* The projection operations as steps                                      *)
(***************************************************************************)
Call(name, a, r) ==
    /\ op' = name
    /\ arg' = a
    /\ result' = r

\* The access answered from the descriptor of an earlier access.
AccessCrsPyproj_cached ==
    /\ Call("crs_pyproj", None,
            IF IsOk(result) /\ "proj" \in DOMAIN result.val
              THEN result ELSE crs_pyproj(attrs))
    /\ UNCHANGED <<attrs, array, vattrs, before, dataset, reads, script>>

AccessCrsPyproj ==
    /\ Call("crs_pyproj", None, crs_pyproj(attrs))
    /\ UNCHANGED <<attrs, array, vattrs, before, dataset, reads, script>>

AccessCrsCartopy ==
    /\ Call("crs_cartopy", None, crs_cartopy(attrs))
    /\ UNCHANGED <<attrs, array, vattrs, before, dataset, reads, script>>

AccessCrs ==
    /\ Call("crs", None, crs(attrs))
    /\ UNCHANGED <<attrs, array, vattrs, before, dataset, reads, script>>

CallLl2xy ==
    \E p \in Points :
        /\ Call("ll2xy", p, ll2xy(attrs, p[1], p[2]))
        /\ UNCHANGED <<attrs, array, vattrs, before, dataset, reads, script>>

CallXy2ll ==
    \E p \in Points :
        /\ Call("xy2ll", p, xy2ll(attrs, p[1], p[2]))
        /\ UNCHANGED <<attrs, array, vattrs, before, dataset, reads, script>>

InitProj ==
    /\ attrs \in AttrsDomain
    /\ array = NoArray
    /\ vattrs = NoVattrs
    /\ op = "init"
    /\ arg = None
    /\ result = None
    /\ before = "none"
    /\ dataset = NoDataset
    /\ reads = {}
    /\ script = NoScript

NextProj ==
    \/ AccessCrsPyproj
    \/ AccessCrsCartopy
    \/ AccessCrs
    \/ CallLl2xy
    \/ CallXy2ll

\* The projection resolver on every dataset of AttrsDomain.
Spec == InitProj /\ [][NextProj]_vars

(***************************************************************************)
(* The dataset mutated between accesses                                    *)
(***************************************************************************)
LifeValues ==
    [POLE_LON |-> {0, Deg},
     POLE_LAT |-> {90 * Deg, 0},
     MAP_PROJ |-> {1, 2, 3},
     MAP_PROJ_CHAR |-> {Absent, "Lambert Conformal Conic",
                        "Polar Stereographic"},
     STAND_LON |-> LonValues,
     CEN_LON |-> LonValues,
     CEN_LAT |-> {70 * Deg, 70 * Deg + 6},
     MOAD_CEN_LAT |-> {70 * Deg, 70 * Deg + 6},
     TRUELAT1 |-> {70 * Deg, 70 * Deg + 4},
     TRUELAT2 |-> {70 * Deg}]

LccDataset ==
    [POLE_LON |-> 0, POLE_LAT |-> 90 * Deg, MAP_PROJ |-> 1,
     MAP_PROJ_CHAR |-> "Lambert Conformal Conic",
     STAND_LON |-> 0, CEN_LON |-> 0,
     CEN_LAT |-> 70 * Deg, MOAD_CEN_LAT |-> 70 * Deg,
     TRUELAT1 |-> 70 * Deg, TRUELAT2 |-> 70 * Deg]

PolarDataset ==
    [LccDataset EXCEPT !.MAP_PROJ = 2, !.MAP_PROJ_CHAR = Absent]

\* dataset.attrs[key] = value (setting MAP_PROJ_CHAR to Absent: del).
SetAttr ==
    \E key \in DOMAIN LifeValues : \E value \in LifeValues[key] :
        /\ attrs[key] # value
        /\ attrs' = [attrs EXCEPT ![key] = value]
        /\ op' = "setattr"
        /\ arg' = None
        /\ before' = result.kind
        /\ UNCHANGED <<array, vattrs, result, dataset, reads, script>>

InitLife ==
    /\ attrs \in {LccDataset, PolarDataset}
    /\ array = NoArray
    /\ vattrs = NoVattrs
    /\ op = "init"
    /\ arg = None
    /\ result = None
    /\ before = "none"
    /\ dataset = NoDataset
    /\ reads = {}
    /\ script = NoScript

NextLife ==
    \/ SetAttr
    \/ AccessCrsPyproj
    \/ AccessCrsCartopy

\* Accesses of the projection interleaved with mutations of the attributes.
SpecLife == InitLife /\ [][NextLife]_vars

(***************************************************************************)
(* Destaggering: the arrays handed to staggered_dims and destagger         *)
(***************************************************************************)
MaxRank == 3

MaxLen == 2

Seeds == {0, 1}

StaggerableSet == {StaggerableDims[k] : k \in 1..Len(StaggerableDims)}

DimNames ==
    {"Time"} \cup StaggerableSet \cup {stag_name(d) : d \in StaggerableSet}

\* The lists of r distinct dimension names.
DimLists(r) ==
    {q \in [1..r -> DimNames] : \A i, j \in 1..r : i # j => q[i] # q[j]}

\* As in WRF output, a staggered axis is one longer than the unstaggered
\* axes, of length len; there is one time.
size_of(name, len) ==
    IF name = "Time" THEN 1
    ELSE IF name \in StaggerableSet THEN len
    ELSE len + 1

RECURSIVE weighted_squares(_, _, _)
weighted_squares(t, k, seed) ==
    IF k = 0 THEN 0
    ELSE (k + seed) * t[k] * t[k] + weighted_squares(t, k - 1, seed)

\* A whole value for each cell, kept in halves.
cell_value(t, seed) == 2 * ((seed + weighted_squares(t, Len(t), seed)) % 7)

make_array(dims, len, seed) ==
    LET shape == [k \in 1..Len(dims) |-> size_of(dims[k], len)]
    IN  [dims |-> dims,
         shape |-> shape,
         data |-> [t \in Indices(shape) |-> cell_value(t, seed)]]

Arrays ==
    {make_array(q, len, seed) :
        q \in UNION {DimLists(r) : r \in 1..MaxRank},
        len \in 1..MaxLen,
        seed \in Seeds}

\* The values of the argument dim: None, the three axes, and "x" as the
\* docstring of destagger names it.
DimArgs == {NoDim, "x"} \cup StaggerableSet

CallStaggeredDims ==
    /\ Call("staggered_dims", NoDim, staggered_dims(array))
    /\ UNCHANGED <<attrs, array, vattrs, before, dataset, reads, script>>

CallDestagger ==
    \E dim \in DimArgs : \E lib \in {"raise", "rename"} :
        /\ Call("destagger", dim, destagger(array, dim, lib))
        /\ UNCHANGED <<attrs, array, vattrs, before, dataset, reads, script>>

InitStag ==
    /\ attrs = LccDataset
    /\ array \in Arrays
    /\ vattrs = NoVattrs
    /\ op = "init"
    /\ arg = None
    /\ result = None
    /\ before = "none"
    /\ dataset = NoDataset
    /\ reads = {}
    /\ script = NoScript

NextStag ==
    \/ CallStaggeredDims
    \/ CallDestagger

\* staggered_dims and destagger on every array of Arrays.
SpecStag == InitStag /\ [][NextStag]_vars

(***************************************************************************)
(* Units: the attributes of the variable whose units are read              *)
(***************************************************************************)
TableKeys ==
    {u_dash, u_one, u_m2_per_s2, u_kg_per_m2, u_kg_per_s_m2, u_kg_per_m2_s,
     u_kg_per_m2_per_s, u_W_m_brace}

\* Unit strings that are no key of the dictionary: "Pa", "K", "mm",
\* "kg kg-1", "kg/(s m2)", "-2", "" and the four values of the dictionary.
OtherUnits ==
    {<<"P", "a">>, <<"K">>, <<"m", "m">>,
     <<"k", "g", " ", "k", "g", "-", "1">>,
     <<"k", "g", "/", "(", "s", " ", "m", "2", ")">>,
     <<"-", "2">>, <<>>,
     n_m2_s2, n_kg_m2, n_kg_m2_s1, n_W_m2}

UnitStrings == TableKeys \cup OtherUnits

VattrsDomain ==
    UNION {[keys -> UnitStrings] : keys \in SUBSET {"units", "unit"}}

CallUnits ==
    /\ Call("units", None, units(vattrs))
    /\ UNCHANGED <<attrs, array, vattrs, before, dataset, reads, script>>

CallUnitsNice ==
    /\ Call("units_nice", None, units_nice(vattrs))
    /\ UNCHANGED <<attrs, array, vattrs, before, dataset, reads, script>>

\* The units a caller expects: "Pa", "kg m-2 s-1", "kg/m2/s" and None.
ExpectedUnits == {<<"P", "a">>, n_kg_m2_s1, u_kg_per_m2_per_s, PyNone}

CallCheckUnits ==
    \E expected \in ExpectedUnits : \E nice \in BOOLEAN :
        /\ Call("check_units", [expected |-> expected, nice |-> nice],
                check_units(vattrs, expected, nice))
        /\ UNCHANGED <<attrs, array, vattrs, before, dataset, reads, script>>

CallUnitsMpl ==
    /\ Call("units_mpl", None, units_mpl(vattrs))
    /\ UNCHANGED <<attrs, array, vattrs, before, dataset, reads, script>>

InitUnits ==
    /\ attrs = LccDataset
    /\ array = NoArray
    /\ vattrs \in VattrsDomain
    /\ op = "init"
    /\ arg = None
    /\ result = None
    /\ before = "none"
    /\ dataset = NoDataset
    /\ reads = {}
    /\ script = NoScript

NextUnits ==
    \/ CallUnits
    \/ CallUnitsNice
    \/ CallCheckUnits
    \/ CallUnitsMpl

\* The units operations on every variable of VattrsDomain.
SpecUnits == InitUnits /\ [][NextUnits]_vars

(***************************************************************************)
(* Specification SpecMpl: _units_mpl on every short string                *)
(***************************************************************************)

\* The longest string given to _units_mpl.
MaxChars == 5

\* A base letter of each kind, the separator, a sign and a digit.
MplAlphabet == {"m", "s", " ", "-", "1"}

MplInputs == UNION {[1..n -> MplAlphabet] : n \in 0..MaxChars}

\* The string drawn by InitMpl is given to _units_mpl.
Call_units_mpl ==
    /\ op = "init"
    /\ op' = "_units_mpl"
    /\ result' = _units_mpl(arg)
    /\ UNCHANGED <<attrs, array, vattrs, arg, before, dataset, reads, script>>

InitMpl ==
    /\ attrs = LccDataset
    /\ array = NoArray
    /\ vattrs = NoVattrs
    /\ op = "init"
    /\ arg \in MplInputs
    /\ result = None
    /\ before = "none"
    /\ dataset = NoDataset
    /\ reads = {}
    /\ script = NoScript

NextMpl == Call_units_mpl

SpecMpl == InitMpl /\ [][NextMpl]_vars

(***************************************************************************)
(* Specification SpecDerived: accesses to the derived variables            *)
(***************************************************************************)

\* The largest number of times of a dataset.
MaxTimes == 2

\* The number of levels (bottom_top) of a dataset.
NLevels == 3

\* The largest number of raw variables with unexpected units.
MaxBadUnits == 2

RawNames == {"P", "PB", "PH", "PHB", "T", "QVAPOR", "RAINNC", "RAINC"}

DerivedNames ==
    {"geopotential", "potential_temperature", "atm_pressure",
     "sea_level_pressure", "air_temperature", "density_of_dry_air",
     "relative_humidity", "accumulated_precipitation"}

raw_dims(name) ==
    IF name \in {"RAINNC", "RAINC"} THEN <<"Time">>
    ELSE IF name \in {"PH", "PHB"} THEN <<"Time", "bottom_top_stag">>
    ELSE <<"Time", "bottom_top">>

\* The units each check expects; slashed datasets spell the geopotential
\* units "m2/s2", which units_nice rewrites.
raw_units(name, slashed) ==
    IF name \in {"P", "PB"} THEN u_Pa
    ELSE IF name \in {"PH", "PHB"}
      THEN (IF slashed THEN u_m2_per_s2 ELSE n_m2_s2)
    ELSE IF name = "T" THEN u_K
    ELSE IF name = "QVAPOR" THEN u_kg_kg1
    ELSE u_mm

\* Units no check expects.
BadUnit == <<"h", "P", "a">>

\* The pressure profiles: step is the pressure drop from one level to the
\* next and p_off the part of the bottom pressure carried by the
\* perturbation P, in Pa. With the first profile no level is p_threshold
\* below the bottom one.
Profiles ==
    {[step |-> 3000, p_off |-> 0],
     [step |-> 6000, p_off |-> 50000],
     [step |-> 12000, p_off |-> 0]}

\* The value of a raw variable at index t = (time, level).
raw_value(name, t, profile) ==
    LET time == t[1]
        k == IF Len(t) > 1 THEN t[2] ELSE 0
    IN  CASE name = "P" -> profile.p_off - 100 * time
          [] name = "PB" -> (100000 - profile.p_off) - profile.step * k
          [] name = "PH" -> 20 * time + 2 * k
          [] name = "PHB" -> 1000 * k
          [] name = "T" -> 10 + 2 * k + time
          [] name = "QVAPOR" -> 1 + k
          [] name = "RAINNC" -> 3 * time
          [] name = "RAINC" -> 1 + time

dim_size(dim, nt) ==
    IF dim = "Time" THEN nt
    ELSE IF dim = "bottom_top" THEN NLevels
    ELSE NLevels + 1

make_raw(name, nt, profile, slashed, bad) ==
    LET dims == raw_dims(name)
        shape == [k \in 1..Len(dims) |-> dim_size(dims[k], nt)]
    IN  [dims |-> dims,
         shape |-> shape,
         data |-> [t \in Indices(shape) |-> raw_value(name, t, profile)],
         attrs |-> [units |-> IF name \in bad THEN BadUnit
                              ELSE raw_units(name, slashed)]]

Datasets ==
    {[name \in RawNames |-> make_raw(name, nt, profile, slashed, bad)] :
        nt \in 1..MaxTimes, profile \in Profiles,
        slashed \in BOOLEAN,
        bad \in {b \in SUBSET RawNames : Cardinality(b) <= MaxBadUnits}}

\* The subscripts: [:], [0:1], [1:2] and [:, 0:1].
ArgsSet ==
    {<<Full>>, <<Range(0, 1)>>, <<Range(1, 2)>>, <<Full, Range(0, 1)>>}

\* The raw variables a derived variable is computed from.
RECURSIVE raw_inputs(_)
raw_inputs(name) ==
    CASE name = "geopotential" -> {"PH", "PHB"}
      [] name = "potential_temperature" -> {"T"}
      [] name = "atm_pressure" -> {"P", "PB"}
      [] name = "air_temperature" ->
            raw_inputs("potential_temperature") \cup raw_inputs("atm_pressure")
      [] name = "density_of_dry_air" ->
            raw_inputs("atm_pressure") \cup raw_inputs("air_temperature")
      [] name = "relative_humidity" ->
            {"QVAPOR"} \cup raw_inputs("air_temperature")
                       \cup raw_inputs("atm_pressure")
      [] name = "accumulated_precipitation" -> {"RAINNC", "RAINC"}
      [] name = "sea_level_pressure" ->
            raw_inputs("atm_pressure") \cup {"QVAPOR"}
                \cup raw_inputs("air_temperature")
                \cup raw_inputs("geopotential")

\* The subscript addresses dimensions the inputs have and selects at least
\* one cell on each.
valid_args(ds, name, args) ==
    \A v \in raw_inputs(name) :
        /\ Len(args) <= Len(ds[v].dims)
        /\ \A k \in 1..Len(args) : axis_len(args[k], ds[v].shape[k]) > 0

\* self._dataset.wrf.<name>[args] takes one of the possible outcomes of
\* the __getitem__ of the derived variable. An access leaves the dataset
\* as it is, so that one access from every dataset shows every outcome.
Access(name, args, outcomes) ==
    /\ op = "init"
    /\ \E e \in outcomes :
        /\ Call(name, args, e.out)
        /\ reads' = e.reads
    /\ UNCHANGED <<attrs, array, vattrs, before, dataset, script>>

GetGeopotential ==
    \E args \in ArgsSet :
        /\ valid_args(dataset, "geopotential", args)
        /\ Access("geopotential", args, {WRFGeopotential(dataset, args)})

GetPotentialTemperature ==
    \E args \in ArgsSet :
        /\ valid_args(dataset, "potential_temperature", args)
        /\ Access("potential_temperature", args,
                  {WRFPotentialTemperature(dataset, args)})

GetAtmPressure ==
    \E args \in ArgsSet :
        /\ valid_args(dataset, "atm_pressure", args)
        /\ Access("atm_pressure", args, {WRFAtmPressure(dataset, args)})

GetSeaLevelPressure ==
    \E args \in ArgsSet :
        /\ valid_args(dataset, "sea_level_pressure", args)
        /\ Access("sea_level_pressure", args,
                  WRFSeaLevelPressure(dataset, args))

GetAirTemperature ==
    \E args \in ArgsSet :
        /\ valid_args(dataset, "air_temperature", args)
        /\ Access("air_temperature", args,
                  {WRFAirTemperature(dataset, args)})

GetDensityOfDryAir ==
    \E args \in ArgsSet :
        /\ valid_args(dataset, "density_of_dry_air", args)
        /\ Access("density_of_dry_air", args,
                  {WRFDensityOfDryAir(dataset, args)})

GetRelativeHumidity ==
    \E args \in ArgsSet :
        /\ valid_args(dataset, "relative_humidity", args)
        /\ Access("relative_humidity", args,
                  {WRFRelativeHumidity(dataset, args)})

GetAccumulatedPrecipitation ==
    \E args \in ArgsSet :
        /\ valid_args(dataset, "accumulated_precipitation", args)
        /\ Access("accumulated_precipitation", args,
                  {WRFAccumulatedPrecipitation(dataset, args)})

InitDerived ==
    /\ attrs = LccDataset
    /\ array = NoArray
    /\ vattrs = NoVattrs
    /\ op = "init"
    /\ arg = None
    /\ result = None
    /\ before = "none"
    /\ dataset \in Datasets
    /\ reads = {}
    /\ script = NoScript

NextDerived ==
    \/ GetGeopotential
    \/ GetPotentialTemperature
    \/ GetAtmPressure
    \/ GetSeaLevelPressure
    \/ GetAirTemperature
    \/ GetDensityOfDryAir
    \/ GetRelativeHumidity
    \/ GetAccumulatedPrecipitation

SpecDerived == InitDerived /\ [][NextDerived]_vars

(***************************************************************************)
(* nearestGridpoint, as the specification describes it. The grid is        *)
(* planar: cell (i, j) has its centre at (i * DX, j * DY), the target is a *)
(* point (x, y), and distances are kept squared.                           *)
(***************************************************************************)

\* The largest number of cells of the grid along an axis.
MaxCells == 2

\* The grid spacings DX and DY.
Spacings == {2, 4}

\* The coordinates of the target.
Coordinates == (0 - 2)..(4 * MaxCells)

Cells(grid) == (0..(grid.nx - 1)) \X (0..(grid.ny - 1))

\* The squared distance from the target to the centre of the cell.
distance2(grid, x, y, cell) ==
    (x - cell[1] * grid.dx) * (x - cell[1] * grid.dx)
    + (y - cell[2] * grid.dy) * (y - cell[2] * grid.dy)

\* The cell at minimum distance, the first one in row-major order among
\* equals.
nearest_cell(grid, x, y) ==
    CHOOSE c \in Cells(grid) :
        \A o \in Cells(grid) :
            \/ distance2(grid, x, y, c) < distance2(grid, x, y, o)
            \/ /\ distance2(grid, x, y, c) = distance2(grid, x, y, o)
               /\ (c[1] < o[1] \/ (c[1] = o[1] /\ c[2] <= o[2]))

\* The distance exceeding half of the larger grid spacing.
exceeds_half_max_spacing(d2, grid) ==
    LET spacing == IF grid.dx > grid.dy THEN grid.dx ELSE grid.dy
    IN  4 * d2 > spacing * spacing

\* The distance exceeds half the grid spacing, min(DX, DY) / 2.
exceeds_half_spacing(d2, grid) ==
    LET spacing == IF grid.dx < grid.dy THEN grid.dx ELSE grid.dy
    IN  4 * d2 > spacing * spacing

nearestGridpoint(grid, x, y) ==
    LET cell == nearest_cell(grid, x, y)
        d2 == distance2(grid, x, y, cell)
    IN  IF exceeds_half_spacing(d2, grid)
          THEN Err("OutsideDomain",
                   "minimum distance exceeds half the grid spacing")
          ELSE Ok([cell |-> cell, distance2 |-> d2])

\* The grid and the target drawn by InitNearest are given to
\* nearestGridpoint.
CallNearestGridpoint ==
    /\ op = "init"
    /\ op' = "nearestGridpoint"
    /\ result' = nearestGridpoint(arg.grid, arg.x, arg.y)
    /\ UNCHANGED <<attrs, array, vattrs, arg, before, dataset, reads, script>>

InitNearest ==
    /\ attrs = LccDataset
    /\ array = NoArray
    /\ vattrs = NoVattrs
    /\ op = "init"
    /\ arg \in [grid : [nx : 1..MaxCells, ny : 1..MaxCells,
                        dx : Spacings, dy : Spacings],
                x : Coordinates, y : Coordinates]
    /\ result = None
    /\ before = "none"
    /\ dataset = NoDataset
    /\ reads = {}
    /\ script = NoScript

NextNearest == CallNearestGridpoint

SpecNearest == InitNearest /\ [][NextNearest]_vars

(***************************************************************************)
(* compile/compile_WRF.py and compile/commons.py: the options. Option      *)
(* values are strings: the values None, True and False of Python are the   *)
(* strings below, which no command line and no JSON text evaluates to.     *)
(* The command line is a function from the options it gives to their       *)
(* texts; an option file holds a JSON value.                               *)
(***************************************************************************)
OptNone == "<None>"

OptTrue == "<True>"

OptFalse == "<False>"

URL_WRFCHEMPOLAR ==
    "https://github.com/Regional-Modeling-LATMOS-IGE/WRF-Chem-Polar.git"

\* prepare_argparser: every option and the default it is declared with.
ParserDefaults ==
    [optfile |-> OptNone,
     repository |-> URL_WRFCHEMPOLAR,
     commit |-> "polar/main",
     destination |-> "./WRF",
     git |-> "git",
     scheduler |-> OptFalse,
     executable |-> "em_real",
     components |-> "kpp,chem",
     patches |-> OptNone,
     sources |-> OptNone,
     dry |-> OptFalse]

\* The options declared with action=cms.ConvertToBoolean.
BooleanOptions == {"scheduler", "dry"}

\* str.lower() on the texts given to the boolean options.
lower(values) ==
    CASE values = "No" -> "no"
      [] values = "True" -> "true"
      [] OTHER -> values

\* ConvertToBoolean.__call__: the value set on the namespace, or the error.
ConvertToBoolean(values) ==
    IF lower(values) \in {"true", "t", "yes", "y"} THEN Ok(OptTrue)
    ELSE IF lower(values) \in {"false", "f", "no", "n"} THEN Ok(OptFalse)
    ELSE Err("ValueError",
             "Could not convert \"" \o values \o "\" to boolean.")

\* parser.parse_args() with the defaults the parser holds: an option of
\* the command line goes through its action, any other one takes its
\* default as it is. A default is not passed to the action.
parse_args(defaults, argv) ==
    LET rejected == {o \in DOMAIN argv \cap BooleanOptions :
                        IsErr(ConvertToBoolean(argv[o]))}
    IN  IF rejected # {}
          THEN ConvertToBoolean(argv[CHOOSE o \in rejected : TRUE])
          ELSE Ok([o \in DOMAIN defaults |->
                    IF o \notin DOMAIN argv THEN defaults[o]
                    ELSE IF o \in BooleanOptions
                      THEN ConvertToBoolean(argv[o]).val
                    ELSE argv[o]])

\* parser.set_defaults(**opts_from_file)
set_defaults(defaults, opts_from_file) ==
    [o \in DOMAIN defaults \cup DOMAIN opts_from_file |->
        IF o \in DOMAIN opts_from_file THEN opts_from_file[o]
        ELSE defaults[o]]

\* The texts str.strip() empties.
Blank == {"", " "}

\* os.path.abspath(os.path.expanduser(path)): a relative path is anchored
\* at the working directory, an absolute one is kept.
abspath(path) ==
    CASE path = "./WRF" -> "/cwd/WRF"
      [] path = "patches" -> "/cwd/patches"
      [] path = "sources" -> "/cwd/sources"
      [] OTHER -> path

\* process_path
process_path(path) ==
    IF path = OptNone \/ path \in Blank THEN OptNone ELSE abspath(path)

\* The repository addresses that start with "http://".
HttpRepositories == {"http://example.org/WRF.git"}

\* repo_is_local: no "@", and neither http:// nor https:// in front.
repo_is_local(repository) ==
    repository \notin HttpRepositories \cup {URL_WRFCHEMPOLAR}

\* [comp.strip() for comp in opts.components.split(",")], [] when blank
split_components(components) ==
    CASE components \in Blank -> <<>>
      [] components = "kpp,chem" -> <<"kpp", "chem">>
      [] OTHER -> <<components>>

\* The end of get_options: the pre-processing of the parsed options.
preprocess(opts) ==
    IF opts.repository \in HttpRepositories
      THEN Err("ValueError",
               "We do not allow http connections (not secure).")
      ELSE Ok([opts EXCEPT
                !.repository = IF repo_is_local(@)
                                 THEN process_path(@) ELSE @,
                !.destination = process_path(@),
                !.components = split_components(@),
                !.patches = process_path(@),
                !.sources = process_path(@)])

\* get_options with the options of the file applied over the parsed ones,
\* where the code makes them the defaults of a second parse.
get_options_file_first(argv, content) ==
    LET opts == parse_args(ParserDefaults, argv)
    IN  IF IsErr(opts) THEN opts
        ELSE IF opts.val.optfile = OptNone THEN preprocess(opts.val)
        ELSE IF content.kind # "dict"
          THEN Err("ValueError",
                   "Option file must represent a JSON dictionnary.")
        ELSE IF DOMAIN content.items \ DOMAIN opts.val # {}
          THEN Err("ValueError",
                   "Unknown option in file: "
                   \o (CHOOSE optname \in
                         DOMAIN content.items \ DOMAIN opts.val : TRUE)
                   \o ".")
        ELSE preprocess(set_defaults(opts.val, content.items))

\* get_options: argv is the command line and content the JSON value of
\* the file the optfile option names.
get_options(argv, content) ==
    LET opts == parse_args(ParserDefaults, argv)
    IN  IF IsErr(opts) THEN opts
        ELSE IF opts.val.optfile = OptNone THEN preprocess(opts.val)
        ELSE IF content.kind # "dict"
          THEN Err("ValueError",
                   "Option file must represent a JSON dictionnary.")
        ELSE IF DOMAIN content.items \ DOMAIN opts.val # {}
          THEN Err("ValueError",
                   "Unknown option in file: "
                   \o (CHOOSE optname \in
                         DOMAIN content.items \ DOMAIN opts.val : TRUE)
                   \o ".")
        ELSE preprocess(
                parse_args(set_defaults(ParserDefaults, content.items),
                           argv).val)

(***************************************************************************)
(* compile/commons.py: subprocesses. A command is the sequence of its      *)
(* words; the text a command prints is a sequence of pieces, a piece being *)
(* either the text of a line or the newline character.                     *)
(***************************************************************************)
RECURSIVE join_words(_)
join_words(args) ==
    IF Len(args) = 1 THEN args[1]
    ELSE args[1] \o " " \o join_words(Tail(args))

\* run: what the call returns, the text printed, or raises.
run(args, returncode, stdout) ==
    IF returncode # 0
      THEN Err("RuntimeError",
               "Command '" \o join_words(args)
               \o "' exited with non-zero return code.")
      ELSE Ok(stdout)

\* str.split("\n")
RECURSIVE split_newline(_)
split_newline(text) ==
    IF text = <<>> THEN <<"">>
    ELSE IF Head(text) = "\n" THEN <<"">> \o split_newline(Tail(text))
    ELSE <<Head(text) \o Head(split_newline(Tail(text)))>>
         \o Tail(split_newline(Tail(text)))

\* run_stdout: out.stdout[:-1].split("\n")
run_stdout(args, returncode, stdout) ==
    IF IsErr(run(args, returncode, stdout))
      THEN run(args, returncode, stdout)
      ELSE Ok(split_newline(SubSeq(stdout, 1, Len(stdout) - 1)))

(***************************************************************************)
(* compile/compile_WRF.py: the files. Files are named by their path in     *)
(* the directory that holds them.                                          *)
(***************************************************************************)
\* The most files a directory of patches or of extra sources holds.
MaxFound == 1

\* The files of the repository once cloned and checked out.
RepoTree == {"configure", "chem/a.F"}

\* What a destination that exists before the script runs holds.
ExistingTree == {"README"}

\* The files the patches of a directory of patches are for: the second one
\* is not in the repository.
PatchNames == {"chem/a.F", "chem/zz.F"}

\* The files of a directory of extra sources.
SourceNames == {"chem/new.F"}

\* The text find prints for the files of the directory dir, each named
\* by its path under dir followed by suffix: one line per file.
RECURSIVE find_stdout(_, _, _)
find_stdout(dir, files, suffix) ==
    IF files = <<>> THEN <<>>
    ELSE <<dir \o "/" \o Head(files) \o suffix, "\n">>
         \o find_stdout(dir, Tail(files), suffix)

\* path[n:] and path[n:-6], n = len(dir) + 1: the path under dir, without
\* the suffix.
path_under(path, dir, suffix) ==
    CHOOSE name \in PatchNames \cup SourceNames :
        dir \o "/" \o name \o suffix = path

NoneNotSubscriptable ==
    Err("TypeError", "'NoneType' object is not subscriptable")

\* The loop of process_patches on the patches left, in a destination that
\* holds tree: the commands run and what the loop returns or raises.
\* failing is the rank, among the commands still to run, of the one that
\* exits with a non-zero code (none when it is beyond them).
RECURSIVE patch_loop(_, _, _, _)
patch_loop(patches, dir, tree, failing) ==
    IF patches = <<>> THEN [commands |-> <<>>, out |-> Ok(None)]
    ELSE IF Head(patches) = OptNone
      THEN [commands |-> <<>>, out |-> NoneNotSubscriptable]
    ELSE IF path_under(Head(patches), dir, ".patch") \notin tree
      THEN patch_loop(Tail(patches), dir, tree, failing)
    ELSE IF failing = 1
      THEN [commands |->
                <<<<"patch", path_under(Head(patches), dir, ".patch"),
                    Head(patches)>>>>,
            out |-> run(<<"patch",
                          path_under(Head(patches), dir, ".patch"),
                          Head(patches)>>, 1, <<>>)]
    ELSE [commands |->
            <<<<"patch", path_under(Head(patches), dir, ".patch"),
                Head(patches)>>>>
            \o patch_loop(Tail(patches), dir, tree, failing - 1).commands,
          out |-> patch_loop(Tail(patches), dir, tree, failing - 1).out]

\* process_patches: found is the text find prints.
process_patches(opts, tree, found, failing) ==
    LET cmd == <<"find", opts.patches, "-type", "f", "-name", "*.patch">>
        lines == run_stdout(cmd, 0, found).val
        patches == [k \in DOMAIN lines |-> process_path(lines[k])]
        loop == patch_loop(patches, opts.patches, tree, failing - 1)
    IN  IF opts.patches = OptNone
          THEN [commands |-> <<>>, out |-> Ok(None)]
        ELSE IF failing = 1
          THEN [commands |-> <<cmd>>, out |-> run_stdout(cmd, 1, <<>>)]
        ELSE [commands |-> <<cmd>> \o loop.commands, out |-> loop.out]

\* The loop of process_extra_sources on the sources left: the commands
\* run, the files copied and what the loop returns or raises.
RECURSIVE copy_loop(_, _, _)
copy_loop(sources, dir, failing) ==
    IF sources = <<>>
      THEN [commands |-> <<>>, copied |-> {}, out |-> Ok(None)]
    ELSE IF Head(sources) = OptNone
      THEN [commands |-> <<>>, copied |-> {}, out |-> NoneNotSubscriptable]
    ELSE IF failing = 1
      THEN [commands |->
                <<<<"cp", "-v", Head(sources),
                    path_under(Head(sources), dir, "")>>>>,
            copied |-> {},
            out |-> run(<<"cp", "-v", Head(sources),
                          path_under(Head(sources), dir, "")>>, 1, <<>>)]
    ELSE [commands |->
            <<<<"cp", "-v", Head(sources),
                path_under(Head(sources), dir, "")>>>>
            \o copy_loop(Tail(sources), dir, failing - 1).commands,
          copied |->
            {path_under(Head(sources), dir, "")}
            \cup copy_loop(Tail(sources), dir, failing - 1).copied,
          out |-> copy_loop(Tail(sources), dir, failing - 1).out]

\* process_extra_sources: found is the text find prints.
process_extra_sources(opts, found, failing) ==
    LET cmd == <<"find", opts.sources, "-type", "f">>
        lines == run_stdout(cmd, 0, found).val
        sources == [k \in DOMAIN lines |-> process_path(lines[k])]
        loop == copy_loop(sources, opts.sources, failing - 1)
    IN  IF opts.sources = OptNone
          THEN [commands |-> <<>>, copied |-> {}, out |-> Ok(None)]
        ELSE IF failing = 1
          THEN [commands |-> <<cmd>>, copied |-> {},
                out |-> run_stdout(cmd, 1, <<>>)]
        ELSE [commands |-> <<cmd>> \o loop.commands,
              copied |-> loop.copied,
              out |-> loop.out]

\* identify_host_platform: the platform of a host name.
identify_host_platform(hostname) ==
    IF hostname \in {"spirit1.ipsl.fr", "spirit2.ipsl.fr"} THEN Ok("spirit")
    ELSE Err("NotImplementedError", "Unknown host platform: " \o hostname \o ".")

\* The truth value Python gives an option value in a condition.
truthy(value) == value \notin {OptNone, OptFalse, ""}

\* clone_and_checkout without the check of the destination.
clone_and_checkout_unchecked(opts, exists, failing) ==
    LET clone == <<opts.git, "clone", opts.repository, opts.destination>>
        checkout == <<opts.git, "checkout", opts.commit>>
    IN  IF failing = 1
          THEN [commands |-> <<clone>>, cloned |-> FALSE,
                out |-> run(clone, 1, <<>>)]
        ELSE IF failing = 2
          THEN [commands |-> <<clone, checkout>>, cloned |-> TRUE,
                out |-> run(checkout, 1, <<>>)]
        ELSE [commands |-> <<clone, checkout>>, cloned |-> TRUE,
              out |-> Ok(None)]

\* clone_and_checkout: exists is os.path.exists(opts.destination). The
\* commands run, whether the repository got cloned, and what the function
\* returns or raises.
clone_and_checkout(opts, exists, failing) ==
    LET clone == <<opts.git, "clone", opts.repository, opts.destination>>
        checkout == <<opts.git, "checkout", opts.commit>>
    IN  IF exists
          THEN [commands |-> <<>>, cloned |-> FALSE,
                out |-> Err("RuntimeError",
                            "Destination directory already exists.")]
        ELSE IF failing = 1
          THEN [commands |-> <<clone>>, cloned |-> FALSE,
                out |-> run(clone, 1, <<>>)]
        ELSE IF failing = 2
          THEN [commands |-> <<clone, checkout>>, cloned |-> TRUE,
                out |-> run(checkout, 1, <<>>)]
        ELSE [commands |-> <<clone, checkout>>, cloned |-> TRUE,
              out |-> Ok(None)]

\* open(path, mode="x") on a path that exists.
FileExists(name) == Err("FileExistsError", "File exists: " \o name)

\* write_options: the commands run, the files written and what the
\* function returns or raises.
write_options(opts, tree, failing) ==
    LET cmd == <<"git", "rev-parse", "HEAD">>
    IN  IF failing = 1
          THEN [commands |-> <<cmd>>, written |-> {},
                out |-> run_stdout(cmd, 1, <<>>)]
        ELSE IF "compile.json" \in tree
          THEN [commands |-> <<cmd>>, written |-> {},
                out |-> FileExists("compile.json")]
        ELSE [commands |-> <<cmd>>, written |-> {"compile.json"},
              out |-> Ok(None)]

\* The components the configure script of the repository lists.
ValidComponents == {"kpp", "chem"}

\* write_job_script, the environment file of the host being there.
write_job_script(opts, host, tree, failing) ==
    LET grep == <<"grep", "-E", "^      [a-zA-Z0-9]+).+=.+;;$",
                  opts.destination \o "/configure">>
        chmod == <<"chmod", "744", opts.destination \o "/compile.job">>
    IN  IF truthy(opts.scheduler) /\ host # "spirit"
          THEN [commands |-> <<>>, written |-> {},
                out |-> Err("NotImplementedError",
                            "Unsupported host: " \o host \o ".")]
        ELSE IF failing = 1
          THEN [commands |-> <<grep>>, written |-> {},
                out |-> run_stdout(grep, 1, <<>>)]
        ELSE IF \E k \in DOMAIN opts.components :
                    opts.components[k] \notin ValidComponents
          THEN [commands |-> <<grep>>, written |-> {},
                out |-> Err("RuntimeError",
                            "There are some invalid WRF extra components.")]
        ELSE IF "compile.job" \in tree
          THEN [commands |-> <<grep>>, written |-> {},
                out |-> FileExists("compile.job")]
        ELSE IF failing = 2
          THEN [commands |-> <<grep, chmod>>, written |-> {"compile.job"},
                out |-> run(chmod, 1, <<>>)]
        ELSE [commands |-> <<grep, chmod>>, written |-> {"compile.job"},
              out |-> Ok(None)]

\* The end of the script without the exit of the dry run.
launch_always(opts, host, failing) ==
    LET cmd == IF truthy(opts.scheduler)
                 THEN <<"sbatch", "compile.job">>
                 ELSE <<"./compile.job">>
    IN  IF failing = 1
          THEN [commands |-> <<cmd>>, out |-> run(cmd, 1, <<>>)]
          ELSE [commands |-> <<cmd>>, out |-> Ok(None)]

\* The end of the script: sys.exit(0) on a dry run, the launch of the job
\* otherwise.
launch(opts, host, failing) ==
    LET cmd == IF truthy(opts.scheduler) THEN <<"sbatch", "compile.job">>
               ELSE <<"./compile.job">>
    IN  IF truthy(opts.dry) THEN [commands |-> <<>>, out |-> Ok(None)]
        ELSE IF truthy(opts.scheduler) /\ host # "spirit"
          THEN [commands |-> <<>>, out |-> Err("KeyError", host)]
        ELSE IF failing = 1
          THEN [commands |-> <<cmd>>, out |-> run(cmd, 1, <<>>)]
        ELSE [commands |-> <<cmd>>, out |-> Ok(None)]

(***************************************************************************)
(* Specification SpecCompile: a run of compile_WRF.py. script.pc is the    *)
(* call of the script that comes next ("raised" once an exception left     *)
(* the script, "exit" once it ended), script.commands the commands run so  *)
(* far, script.steps the calls made so far, script.tree the files of the   *)
(* destination. Any command can exit with a non-zero code.                 *)
(***************************************************************************)
\* What the command line leaves out.
NotGiven == "<not given>"

\* The command line that gives the options given a text.
given(texts) ==
    [o \in {name \in DOMAIN texts : texts[name] # NotGiven} |-> texts[o]]

CommandLines ==
    {given([optfile |-> optfile, dry |-> dry, scheduler |-> scheduler,
            patches |-> patches, sources |-> sources]) :
        optfile \in {NotGiven, "opts.json"},
        dry \in {NotGiven, "yes", "No", "maybe"},
        scheduler \in {NotGiven, "True"},
        patches \in {NotGiven, "", "patches"},
        sources \in {NotGiven, "sources"}}

\* The JSON values of the option file: a list, the dictionaries that
\* define some of dry and patches and possibly an option the parser does
\* not know, and one that gives a repository over http. "false" is the
\* JSON string, OptFalse the JSON boolean.
FileContents ==
    {[kind |-> "list"],
     [kind |-> "dict",
      items |-> [repository |-> "http://example.org/WRF.git"]]}
    \cup
    {[kind |-> "dict",
      items |-> given([dry |-> dry, patches |-> patches,
                       verbose |-> verbose])] :
        dry \in {NotGiven, OptTrue, OptFalse, "false"},
        patches \in {NotGiven, "/opt/patches"},
        verbose \in {NotGiven, "1"}}

\* The file names of names in the orders find can print them, MaxFound of
\* them at most.
Listings(names) ==
    {files \in UNION {[1..n -> names] : n \in 0..MaxFound} :
        \A i, j \in DOMAIN files : i # j => files[i] # files[j]}

Hostnames == {"spirit1.ipsl.fr", "laptop"}

\* No option file.
NoFile == [kind |-> "none"]

\* The runs: there is a file to read when the command line names one.
Scripts ==
    {s \in {[pc |-> "identify_host_platform",
             argv |-> argv,
             content |-> content,
             hostname |-> hostname,
             host |-> OptNone,
             opts |-> NoScript,
             exists |-> exists,
             tree |-> IF exists THEN ExistingTree ELSE {},
             patch_files |-> patch_files,
             source_files |-> source_files,
             commands |-> <<>>,
             steps |-> <<>>] :
                argv \in CommandLines,
                content \in FileContents \cup {NoFile},
                hostname \in Hostnames,
                exists \in BOOLEAN,
                patch_files \in Listings(PatchNames),
                source_files \in Listings(SourceNames)} :
        (s.content = NoFile) <=> ("optfile" \notin DOMAIN s.argv)}

\* The script after a call of its main part.
after(name, next, step) ==
    [script EXCEPT !.pc = IF IsErr(step.out) THEN "raised" ELSE next,
                   !.commands = @ \o step.commands,
                   !.steps = Append(@, name)]

\* host = cms.identify_host_platform()
IdentifyHostPlatform ==
    /\ script.pc = "identify_host_platform"
    /\ LET host == identify_host_platform(script.hostname)
       IN  /\ script' = [after("identify_host_platform", "get_options",
                               [out |-> host, commands |-> <<>>])
                            EXCEPT !.host = IF IsOk(host) THEN host.val
                                            ELSE @]
           /\ Call("identify_host_platform", None,
                   IF IsOk(host) THEN Ok(None) ELSE host)
    /\ UNCHANGED <<attrs, array, vattrs, before, dataset, reads>>

\* opts = get_options()
GetOptions ==
    /\ script.pc = "get_options"
    /\ LET opts == get_options(script.argv, script.content)
       IN  /\ script' = [after("get_options", "clone_and_checkout",
                               [out |-> opts, commands |-> <<>>])
                            EXCEPT !.opts = IF IsOk(opts) THEN opts.val
                                            ELSE @]
           /\ Call("get_options", None,
                   IF IsOk(opts) THEN Ok(None) ELSE opts)
    /\ UNCHANGED <<attrs, array, vattrs, before, dataset, reads>>

\* clone_and_checkout(opts)
CloneAndCheckout ==
    /\ script.pc = "clone_and_checkout"
    /\ \E failing \in 0..2 :
        LET step == clone_and_checkout(script.opts, script.exists, failing)
        IN  /\ script' = [after("clone_and_checkout", "write_options", step)
                            EXCEPT !.exists = @ \/ step.cloned,
                                   !.tree = IF step.cloned THEN RepoTree
                                            ELSE @]
            /\ Call("clone_and_checkout", None, step.out)
    /\ UNCHANGED <<attrs, array, vattrs, before, dataset, reads>>

\* write_options(opts)
WriteOptions ==
    /\ script.pc = "write_options"
    /\ \E failing \in 0..1 :
        LET step == write_options(script.opts, script.tree, failing)
        IN  /\ script' = [after("write_options", "process_patches", step)
                            EXCEPT !.tree = @ \cup step.written]
            /\ Call("write_options", None, step.out)
    /\ UNCHANGED <<attrs, array, vattrs, before, dataset, reads>>

\* process_patches(opts)
ProcessPatches ==
    /\ script.pc = "process_patches"
    /\ \E failing \in 0..(MaxFound + 1) :
        LET step == process_patches(
                        script.opts, script.tree,
                        find_stdout(script.opts.patches, script.patch_files,
                                    ".patch"),
                        failing)
        IN  /\ script' = after("process_patches", "process_extra_sources",
                               step)
            /\ Call("process_patches", None, step.out)
    /\ UNCHANGED <<attrs, array, vattrs, before, dataset, reads>>

\* process_extra_sources(opts)
ProcessExtraSources ==
    /\ script.pc = "process_extra_sources"
    /\ \E failing \in 0..(MaxFound + 1) :
        LET step == process_extra_sources(
                        script.opts,
                        find_stdout(script.opts.sources, script.source_files,
                                    ""),
                        failing)
        IN  /\ script' = [after("process_extra_sources", "write_job_script",
                                step)
                            EXCEPT !.tree = @ \cup step.copied]
            /\ Call("process_extra_sources", None, step.out)
    /\ UNCHANGED <<attrs, array, vattrs, before, dataset, reads>>

\* write_job_script(opts)
WriteJobScript ==
    /\ script.pc = "write_job_script"
    /\ \E failing \in 0..2 :
        LET step == write_job_script(script.opts, script.host, script.tree,
                                     failing)
        IN  /\ script' = [after("write_job_script", "launch", step)
                            EXCEPT !.tree = @ \cup step.written]
            /\ Call("write_job_script", None, step.out)
    /\ UNCHANGED <<attrs, array, vattrs, before, dataset, reads>>

\* if opts.dry: sys.exit(0), else cms.run(cmd, cwd=opts.destination)
Launch ==
    /\ script.pc = "launch"
    /\ \E failing \in 0..1 :
        LET step == launch(script.opts, script.host, failing)
        IN  /\ script' = after("launch", "exit", step)
            /\ Call("launch", None, step.out)
    /\ UNCHANGED <<attrs, array, vattrs, before, dataset, reads>>

InitCompile ==
    /\ attrs = LccDataset
    /\ array = NoArray
    /\ vattrs = NoVattrs
    /\ op = "init"
    /\ arg = None
    /\ result = None
    /\ before = "none"
    /\ dataset = NoDataset
    /\ reads = {}
    /\ script \in Scripts

NextCompile ==
    \/ IdentifyHostPlatform
    \/ GetOptions
    \/ CloneAndCheckout
    \/ WriteOptions
    \/ ProcessPatches
    \/ ProcessExtraSources
    \/ WriteJobScript
    \/ Launch

SpecCompile == InitCompile /\ [][NextCompile]_vars

(***************************************************************************)
(* Claims on the projection resolver                                       *)
(***************************************************************************)
PolesValid(a) == a.POLE_LON = 0 /\ a.POLE_LAT \in {90 * Deg, -90 * Deg}

LccPre(a) ==
    /\ a.MAP_PROJ = 1
    /\ PolesValid(a)
    /\ a.MAP_PROJ_CHAR \in {Absent, "Lambert Conformal Conic"}

PolarPre(a) ==
    /\ a.MAP_PROJ = 2
    /\ PolesValid(a)
    /\ a.MAP_PROJ_CHAR \in {Absent, "Polar Stereographic"}

InconsistencyMessages ==
    {"Inconsistency in central longitude values.",
     "Inconsistency in central latitude values.",
     "Inconsistency in true latitude values."}

\* C1: on a dataset with MAP_PROJ = 1, valid poles and MAP_PROJ_CHAR absent
\* or "Lambert Conformal Conic", crs_pyproj returns the LCC descriptor
\* (lat_0 = CEN_LAT, lon_0 = CEN_LON, lat_1 = TRUELAT1, lat_2 = TRUELAT2)
\* when STAND_LON = CEN_LON and MOAD_CEN_LAT = CEN_LAT, and otherwise raises
\* a metadata-inconsistency ValueError and returns no descriptor.
C1_LccResolve ==
    (op = "crs_pyproj" /\ LccPre(attrs)) =>
        IF attrs.STAND_LON = attrs.CEN_LON /\ attrs.MOAD_CEN_LAT = attrs.CEN_LAT
          THEN result = Ok([proj |-> "lcc",
                            lat_0 |-> attrs.CEN_LAT,
                            lon_0 |-> attrs.CEN_LON,
                            lat_1 |-> attrs.TRUELAT1,
                            lat_2 |-> attrs.TRUELAT2])
          ELSE /\ IsErr(result)
               /\ result.exc = "ValueError"
               /\ result.msg \in InconsistencyMessages

C1_Witness ==
    /\ op = "crs_pyproj"
    /\ LccPre(attrs)
    /\ attrs.STAND_LON = attrs.CEN_LON
    /\ attrs.MOAD_CEN_LAT = attrs.CEN_LAT
    /\ attrs.TRUELAT1 # attrs.TRUELAT2
    /\ attrs.TRUELAT1 # attrs.CEN_LAT
    /\ IsOk(result)

\* C2 as stated: on a Polar Stereographic dataset, crs_pyproj succeeds iff
\* STAND_LON = CEN_LON and TRUELAT1, TRUELAT2 and MOAD_CEN_LAT are equal to
\* one another after rounding to 4 decimals.
C2_Original ==
    (op = "crs_pyproj" /\ PolarPre(attrs)) =>
        (IsOk(result) <=>
            /\ attrs.STAND_LON = attrs.CEN_LON
            /\ round4(attrs.TRUELAT1) = round4(attrs.TRUELAT2)
            /\ round4(attrs.TRUELAT2) = round4(attrs.MOAD_CEN_LAT))

\* C2 (amended): on a Polar Stereographic dataset, crs_pyproj succeeds iff
\* STAND_LON = CEN_LON and each of TRUELAT1, TRUELAT2 and MOAD_CEN_LAT
\* equals CEN_LAT after rounding both to 4 decimals.
C2_PolarResolve ==
    (op = "crs_pyproj" /\ PolarPre(attrs)) =>
        (IsOk(result) <=>
            /\ attrs.STAND_LON = attrs.CEN_LON
            /\ round4(attrs.TRUELAT1) = round4(attrs.CEN_LAT)
            /\ round4(attrs.TRUELAT2) = round4(attrs.CEN_LAT)
            /\ round4(attrs.MOAD_CEN_LAT) = round4(attrs.CEN_LAT))

\* Success on latitudes that differ and round to the same 4 decimals.
C2_Witness ==
    /\ op = "crs_pyproj"
    /\ PolarPre(attrs)
    /\ attrs.TRUELAT1 # attrs.CEN_LAT
    /\ attrs.TRUELAT2 # attrs.TRUELAT1
    /\ IsOk(result)
    /\ result.val.proj = "stere"

\* C3: with valid poles crs_pyproj dispatches on MAP_PROJ: 1 gives what the
\* LCC builder gives, 2 what the Polar Stereographic builder gives, each of
\* 0, 3, 4, 5, 6, 102, 105, 203 raises NotImplementedError and every other
\* code raises the invalid-projection-code ValueError.
C3_Dispatch ==
    (op = "crs_pyproj" /\ PolesValid(attrs)) =>
        CASE attrs.MAP_PROJ = 1 ->
                /\ result = _crs_pyproj_lcc(attrs)
                /\ IsOk(result) => result.val.proj = "lcc"
          [] attrs.MAP_PROJ = 2 ->
                /\ result = _crs_pyproj_polarstereo(attrs)
                /\ IsOk(result) => result.val.proj = "stere"
          [] attrs.MAP_PROJ \in {0, 3, 4, 5, 6, 102, 105, 203} ->
                result = Err("NotImplementedError", "Projection code")
          [] OTHER ->
                result = Err("ValueError", "Invalid projection code")

C3_Witness ==
    /\ op = "crs_pyproj"
    /\ PolesValid(attrs)
    /\ attrs.MAP_PROJ = 6
    /\ IsErr(result)
    /\ result.exc = "NotImplementedError"

\* C4: with POLE_LON # 0 or POLE_LAT outside {90, -90}, crs_pyproj raises
\* the pole error whatever MAP_PROJ is, never a projection-code error and
\* never a descriptor.
C4_PolesFirst ==
    (op = "crs_pyproj" /\ ~PolesValid(attrs)) =>
        /\ IsErr(result)
        /\ result.exc = "ValueError"
        /\ result.msg = IF attrs.POLE_LON # 0
                          THEN "Invalid POLE_LON"
                          ELSE "Invalid value for attribute POLE_LAT."

C4_Witness ==
    /\ op = "crs_pyproj"
    /\ attrs.POLE_LON = 0
    /\ attrs.POLE_LAT = 0
    /\ attrs.MAP_PROJ = 203
    /\ IsErr(result)

\* Metadata that satisfies every invariant of one of the two projections.
ValidMeta(a) ==
    /\ PolesValid(a)
    /\ \/ /\ LccPre(a)
          /\ a.STAND_LON = a.CEN_LON
          /\ a.MOAD_CEN_LAT = a.CEN_LAT
       \/ /\ PolarPre(a)
          /\ a.STAND_LON = a.CEN_LON
          /\ round4(a.TRUELAT1) = round4(a.CEN_LAT)
          /\ round4(a.TRUELAT2) = round4(a.CEN_LAT)
          /\ round4(a.MOAD_CEN_LAT) = round4(a.CEN_LAT)

\* The descriptor of valid metadata.
Descriptor(a) ==
    IF a.MAP_PROJ = 1
      THEN [proj |-> "lcc", lat_0 |-> a.CEN_LAT, lon_0 |-> a.CEN_LON,
            lat_1 |-> a.TRUELAT1, lat_2 |-> a.TRUELAT2]
      ELSE [proj |-> "stere", lat_0 |-> a.POLE_LAT, lat_ts |-> a.TRUELAT1,
            lon_0 |-> a.CEN_LON]

\* C5: after any sequence of mutations and accesses, an access of crs_pyproj
\* or crs_cartopy succeeds iff the attributes as they are now are valid,
\* and crs_pyproj then returns the descriptor of the attributes as they are
\* now: nothing of an earlier access is kept.
C5_NeverCached ==
    (op \in {"crs_pyproj", "crs_cartopy"}) =>
        /\ IsOk(result) <=> ValidMeta(attrs)
        /\ ~IsOk(result) => IsErr(result)
        /\ (op = "crs_pyproj" /\ IsOk(result)) =>
                result.val = Descriptor(attrs)

\* An access that fails on a dataset whose previous access had succeeded.
C5_Witness ==
    /\ op = "crs_pyproj"
    /\ before = "ok"
    /\ IsErr(result)

\* C6: whenever crs_pyproj fails on the dataset, crs_cartopy, crs, ll2xy and
\* xy2ll fail too, with the error crs_pyproj raised: none of them returns a
\* descriptor or coordinates.
C6_FailuresFatal ==
    (op \in {"crs_cartopy", "crs", "ll2xy", "xy2ll"}
        /\ IsErr(crs_pyproj(attrs))) =>
        /\ IsErr(result)
        /\ result = crs_pyproj(attrs)

C6_Witness ==
    /\ op = "ll2xy"
    /\ IsErr(crs_pyproj(attrs))
    /\ attrs.MAP_PROJ = 1
    /\ PolesValid(attrs)
    /\ IsErr(result)

(***************************************************************************)
(* Claims on destaggering                                                  *)
(***************************************************************************)
\* The axes among the three that the array carries in staggered form.
StagAxes(dims) == {d \in StaggerableSet : InDims(stag_name(d), dims)}

\* The axes the array carries in both forms.
BothForms(dims) == {d \in StagAxes(dims) : InDims(d, dims)}

\* out is arr destaggered along its k-th axis, renamed dim.
DestaggeredAlong(arr, out, k, dim) ==
    /\ arr.dims[k] = stag_name(dim)
    /\ out.dims = [arr.dims EXCEPT ![k] = dim]
    /\ Len(out.shape) = Len(arr.shape)
    /\ \A j \in 1..Len(arr.shape) :
          out.shape[j] = IF j = k THEN arr.shape[k] - 1 ELSE arr.shape[j]
    /\ DOMAIN out.data = Indices(out.shape)
    /\ \A t \in DOMAIN out.data :
          2 * out.data[t] = arr.data[t] + arr.data[[t EXCEPT ![k] = @ + 1]]

AmbiguousAxis ==
    Err("ValueError", "Array has zero or more than one staggered dimension(s).")

\* C7: whenever destagger returns, its result is the array with the
\* staggered axis one shorter (n-1 for n), renamed without "_stag", holding
\* value[i] = (staggered[i] + staggered[i+1]) / 2 for every i, the other
\* axes keeping name, length and order; and it does return when the axis
\* asked for is present in staggered form only.
C7_Destagger ==
    (op = "destagger") =>
        /\ IsOk(result) =>
              \E k \in 1..Len(array.dims) : \E dim \in DimArgs \ {NoDim} :
                  /\ arg # NoDim => dim = arg
                  /\ DestaggeredAlong(array, result.val, k, dim)
        /\ (/\ arg # NoDim
            /\ InDims(stag_name(arg), array.dims)
            /\ ~InDims(arg, array.dims)) => IsOk(result)

\* An average that is not a whole number, in an array of several axes.
C7_Witness ==
    /\ op = "destagger"
    /\ IsOk(result)
    /\ Len(array.dims) >= 2
    /\ \E k \in 1..Len(array.dims) :
          /\ array.dims[k] # result.val.dims[k]
          /\ array.shape[k] = 3
          /\ result.val.shape[k] = 2
    /\ \E t \in DOMAIN result.val.data : result.val.data[t] % 2 = 1

\* C8 as stated: destagger without an axis succeeds only on an array with
\* exactly one staggered axis, which it destaggers, and raises the
\* ambiguous-axis error on an array with zero or several staggered axes.
C8_Original ==
    (op = "destagger" /\ arg = NoDim) =>
        /\ IsOk(result) =>
              /\ Cardinality(StagAxes(array.dims)) = 1
              /\ \E k \in 1..Len(array.dims) : \E dim \in StagAxes(array.dims) :
                    DestaggeredAlong(array, result.val, k, dim)
        /\ Cardinality(StagAxes(array.dims)) # 1 => result = AmbiguousAxis

\* C8 (amended): destagger without an axis raises the invalid-grid error of
\* staggered_dims on an array that carries an axis in both forms; on any
\* other array it destaggers the staggered axis when there is exactly one,
\* and raises the ambiguous-axis error when there are zero or several.
C8_AutoAxis ==
    (op = "destagger" /\ arg = NoDim) =>
        IF BothForms(array.dims) # {}
          THEN /\ IsErr(result)
               /\ result = staggered_dims(array)
               /\ result # AmbiguousAxis
        ELSE IF Cardinality(StagAxes(array.dims)) = 1
          THEN /\ IsOk(result)
               /\ \E k \in 1..Len(array.dims) : \E dim \in StagAxes(array.dims) :
                     DestaggeredAlong(array, result.val, k, dim)
        ELSE result = AmbiguousAxis

\* Several staggered axes, none in both forms: the ambiguous-axis error.
C8_Witness ==
    /\ op = "destagger"
    /\ arg = NoDim
    /\ Cardinality(StagAxes(array.dims)) >= 2
    /\ BothForms(array.dims) = {}
    /\ result = AmbiguousAxis

\* C9: staggered_dims returns the axes of (west_east, south_north,
\* bottom_top) that the array carries in "_stag" form, in that order, and
\* raises the invalid-grid ValueError when the array carries one of them in
\* both forms.
C9_StaggeredDims ==
    (op = "staggered_dims") =>
        IF BothForms(array.dims) # {}
          THEN /\ IsErr(result)
               /\ result.exc = "ValueError"
               /\ \E d \in BothForms(array.dims) :
                     result.msg = "Dimension " \o d \o " present in both forms."
          ELSE /\ IsOk(result)
               /\ \A d \in StaggerableSet :
                     InDims(d, result.val) <=> d \in StagAxes(array.dims)
               /\ \A i, j \in 1..Len(result.val) :
                     i < j => dims_index(StaggerableDims, result.val[i])
                                < dims_index(StaggerableDims, result.val[j])
               /\ Len(result.val) = Cardinality(StagAxes(array.dims))

\* Two staggered axes the array carries in the opposite order.
C9_Witness ==
    /\ op = "staggered_dims"
    /\ Len(array.dims) >= 2
    /\ array.dims[1] = "bottom_top_stag"
    /\ array.dims[2] = "west_east_stag"
    /\ result = Ok(<<"west_east", "bottom_top">>)

(***************************************************************************)
(* Claims on the units                                                     *)
(***************************************************************************)
\* The unit string of the variable: attribute "units", else "unit".
RawUnits(va) == IF "units" \in DOMAIN va THEN va["units"] ELSE va["unit"]

\* C10: units_nice is the lookup of the raw unit string in the table, with
\* pass-through: "-" and "1" give None, the three spellings "kg/(s*m2)",
\* "kg/(m2*s)" and "kg/m2/s" give "kg m-2 s-1", "m2/s2" gives "m2 s-2",
\* "kg/m2" gives "kg m-2", "W m{-2}" gives "W m-2", and any other string is
\* returned unchanged.
C10_UnitsNice ==
    (op = "units_nice" /\ DOMAIN vattrs # {}) =>
        LET raw == RawUnits(vattrs)
        IN  result = Ok(CASE raw \in {u_dash, u_one} -> PyNone
                          [] raw \in {u_kg_per_s_m2, u_kg_per_m2_s,
                                      u_kg_per_m2_per_s} -> n_kg_m2_s1
                          [] raw = u_m2_per_s2 -> n_m2_s2
                          [] raw = u_kg_per_m2 -> n_kg_m2
                          [] raw = u_W_m_brace -> n_W_m2
                          [] OTHER -> raw)

C10_Witness ==
    /\ op = "units_nice"
    /\ DOMAIN vattrs = {"unit"}
    /\ RawUnits(vattrs) = u_kg_per_m2_per_s
    /\ result = Ok(n_kg_m2_s1)

\* The canonical form of a raw unit string.
Canonical(raw) ==
    IF raw \in DOMAIN replacements THEN replacements[raw] ELSE raw

\* C11: for both values of nice, check_units raises the unit-mismatch
\* error, carrying the expected and the actual units, exactly when the
\* actual units of the variable differ from the expected ones, and returns
\* silently otherwise; the actual units are the canonical units when nice is
\* true and the raw units (attribute "units", else "unit") when it is false.
C11_CheckUnits ==
    (op = "check_units" /\ DOMAIN vattrs # {}) =>
        LET actual == IF arg.nice THEN Canonical(RawUnits(vattrs))
                      ELSE RawUnits(vattrs)
        IN  IF actual # arg.expected
              THEN result = BadUnits(arg.expected, actual)
              ELSE IsOk(result)

\* C12: units returns the value of attribute "units" when the variable has
\* it, otherwise the value of attribute "unit", and raises the
\* missing-attribute error (KeyError) when the variable has neither.
C12_RawUnits ==
    (op = "units") =>
        IF "units" \in DOMAIN vattrs THEN result = Ok(vattrs["units"])
        ELSE IF "unit" \in DOMAIN vattrs THEN result = Ok(vattrs["unit"])
        ELSE IsErr(result) /\ result.exc = "KeyError"

\* Both attributes, with different values: the one of "units" is returned.
C12_Witness ==
    /\ op = "units"
    /\ DOMAIN vattrs = {"units", "unit"}
    /\ vattrs["units"] # vattrs["unit"]
    /\ result = Ok(vattrs["units"])

\* The tokens of str, as positions: <<i, j>> is a maximal run of
\* non-whitespace characters of str.
IsToken(str, i, j) ==
    /\ i <= j
    /\ \A k \in i..j : str[k] \notin Whitespace
    /\ (i = 1 \/ str[i - 1] \in Whitespace)
    /\ (j = Len(str) \/ str[j + 1] \in Whitespace)

\* The length of the maximal suffix of sign/digit characters of tok.
RECURSIVE ExponentLen(_)
ExponentLen(tok) ==
    IF tok # <<>> /\ tok[Len(tok)] \in ExponentChars
      THEN 1 + ExponentLen(SubSeq(tok, 1, Len(tok) - 1))
      ELSE 0

\* The token with only its trailing exponent wrapped, a token without
\* exponent unchanged.
Wrapped(tok) ==
    LET e == ExponentLen(tok)
    IN  IF e = 0 THEN tok
        ELSE SubSeq(tok, 1, Len(tok) - e) \o <<"$", "^", "{">>
             \o SubSeq(tok, Len(tok) - e + 1, Len(tok)) \o <<"}", "$">>

\* C13: _units_mpl rewrites each space-separated token by wrapping only its
\* trailing numeric exponent in $^{...}$, keeps the base of the token, and
\* leaves a token without trailing exponent unchanged ("m s-1" becomes
\* "m s$^{-1}$").
C13_WrapsExponentOnly ==
    (op = "_units_mpl" /\ IsOk(result)) =>
        LET tokens == split(arg)
        IN  result.val = join([k \in 1..Len(tokens) |-> Wrapped(tokens[k])])

\* C14: _units_mpl fails with ValueError("Could not process units.") if and
\* only if some space-separated token of the input consists entirely of
\* sign/digit characters; it returns a formatted string otherwise.
C14_MalformedUnits ==
    (op = "_units_mpl") =>
        LET malformed ==
                \E i, j \in 1..Len(arg) :
                    /\ IsToken(arg, i, j)
                    /\ \A k \in i..j : arg[k] \in ExponentChars
        IN  /\ malformed => result = Err("ValueError", "Could not process units.")
            /\ ~malformed => IsOk(result)

\* A well-formed token followed by a token that is only an exponent.
C14_Witness ==
    /\ op = "_units_mpl"
    /\ Len(arg) >= 3
    /\ arg[1] \notin (ExponentChars \cup Whitespace)
    /\ arg[Len(arg)] \in ExponentChars
    /\ IsErr(result)

\* The canonical units each raw variable is expected to have.
ExpectedOf(v) ==
    CASE v \in {"P", "PB"} -> u_Pa
      [] v \in {"PH", "PHB"} -> n_m2_s2
      [] v = "T" -> u_K
      [] v = "QVAPOR" -> u_kg_kg1
      [] v \in {"RAINNC", "RAINC"} -> u_mm

\* The raw variable v of the dataset has the expected units.
GoodUnits(v) == Canonical(RawUnits(dataset[v].attrs)) = ExpectedOf(v)

\* The two raw variables a primitive sum adds, and its labels.
SumOf ==
    [atm_pressure |->
        [a |-> "P", b |-> "PB", name |-> "atmospheric pressure",
         long_name |-> "Atmospheric pressure", units |-> u_Pa],
     geopotential |->
        [a |-> "PH", b |-> "PHB", name |-> "geopotential",
         long_name |-> "Geopotential", units |-> n_m2_s2],
     accumulated_precipitation |->
        [a |-> "RAINNC", b |-> "RAINC",
         name |-> "accumulated total precipitation",
         long_name |-> "Accumulated total precipitation", units |-> u_mm]]

\* The result is an array of the dims and shape of like, labelled.
Labelled(like, name, long_name, units_attr) ==
    /\ IsOk(result)
    /\ result.val # None
    /\ result.val.dims = like.dims
    /\ result.val.shape = like.shape
    /\ DOMAIN result.val.data = Indices(like.shape)
    /\ result.val.name = name
    /\ result.val.attrs = [long_name |-> long_name, units |-> units_attr]

\* C15: on a dataset with the expected units and for every slice s,
\* atm_pressure[s] = P[s] + PB[s], geopotential[s] = PH[s] + PHB[s],
\* accumulated_precipitation[s] = RAINNC[s] + RAINC[s] and
\* potential_temperature[s] = T[s] + 300, cell by cell, each result
\* carrying its name, long name and units (Pa, m2 s-2, mm, K); P = 50000,
\* PB = 50000 and T = 10 give 100000 Pa and 310 K.
C15_PrimitiveSums ==
    /\ (op \in DOMAIN SumOf
            /\ GoodUnits(SumOf[op].a) /\ GoodUnits(SumOf[op].b)) =>
         LET a == getitem(dataset[SumOf[op].a], arg).val
             b == getitem(dataset[SumOf[op].b], arg).val
         IN  /\ Labelled(a, SumOf[op].name, SumOf[op].long_name,
                         SumOf[op].units)
             /\ \A t \in Indices(a.shape) :
                    result.val.data[t] = a.data[t] + b.data[t]
    /\ (op = "potential_temperature" /\ GoodUnits("T")) =>
         LET a == getitem(dataset["T"], arg).val
         IN  /\ Labelled(a, "potential temperature",
                         "Potential temperature", u_K)
             /\ \A t \in Indices(a.shape) :
                    /\ result.val.data[t] = a.data[t] + 300
                    /\ a.data[t] = 10 => result.val.data[t] = 310
    /\ (op = "atm_pressure" /\ IsOk(result)) =>
         \A t \in DOMAIN result.val.data :
            (getitem(dataset["P"], arg).val.data[t] = 50000
                /\ getitem(dataset["PB"], arg).val.data[t] = 50000)
            => result.val.data[t] = 100000

\* The pressure of the example, on a slice that does not start at the
\* origin of every axis it spans more than one cell of.
C15_Witness ==
    /\ op = "atm_pressure"
    /\ arg = <<Full>>
    /\ IsOk(result)
    /\ result.val.shape = <<MaxTimes, NLevels>>
    /\ dataset["P"].data[<<0, 0>>] = 50000
    /\ dataset["PB"].data[<<0, 0>>] = 50000
    /\ result.val.data[<<0, 0>>] = 100000
    /\ result.val.data[<<1, 1>>] # result.val.data[<<0, 0>>]

\* The result is the unit-mismatch error.
UnitMismatch == IsErr(result) /\ result.msg = "Bad units"

\* Some raw input of the derived variable of the last access has
\* unexpected units.
SomeBadInput == \E v \in raw_inputs(op) : ~GoodUnits(v)

\* C16 as stated: every derived-variable access, sea-level pressure
\* included, fails with the unit-mismatch error when some raw input has
\* unexpected units.
C16_Original ==
    (op \in DerivedNames /\ SomeBadInput) => UnitMismatch

\* C16: an access to geopotential, potential temperature, pressure, air
\* temperature, dry-air density, relative humidity or accumulated
\* precipitation fails with the unit-mismatch error, returning no field,
\* when some raw input has unexpected units; an access to sea-level
\* pressure then fails too, with the unit-mismatch error unless the level
\* search or the arithmetic on the levels fails before the check is
\* reached.
C16_UnitsAsserted ==
    (op \in DerivedNames /\ SomeBadInput) =>
        IF op = "sea_level_pressure"
          THEN IsErr(result)
                /\ (~GoodUnits("P") \/ ~GoodUnits("PB") => UnitMismatch)
          ELSE UnitMismatch

\* Relative humidity whose only bad input is read by a derived variable it
\* depends on.
C16_Witness ==
    /\ op = "relative_humidity"
    /\ ~GoodUnits("T")
    /\ \A v \in raw_inputs(op) \ {"T"} : GoodUnits(v)
    /\ result = BadUnits(u_K, BadUnit)

\* C17: for every derived variable and every slice s, every raw input used
\* to compute V[s] is read with that same slice s.
C17_SameSlice ==
    (op \in DerivedNames) => \A r \in reads : r[2] = arg

\* Every column of the dataset has a level more than p_threshold below
\* the pressure of its bottom level.
LevelsFound ==
    \A time \in 0..(dataset["P"].shape[1] - 1) :
        \E k \in 0..(dataset["P"].shape[2] - 1) :
            dataset["P"].data[<<time, k>>] + dataset["PB"].data[<<time, k>>]
            < dataset["P"].data[<<time, 0>>] + dataset["PB"].data[<<time, 0>>]
              - 10000

\* C18: accessing sea_level_pressure with a slice on a valid dataset
\* (expected units, every column with a level more than 10000 Pa below the
\* surface pressure) returns a labelled field: an array with a name, a
\* long name and units Pa.
C18_LabelledField ==
    (op = "sea_level_pressure"
        /\ (\A v \in raw_inputs(op) : GoodUnits(v))
        /\ LevelsFound) =>
        /\ IsOk(result)
        /\ result.val # None
        /\ result.val.attrs.units = u_Pa

\* The smallest squared distance from the target to a cell centre.
MinDistance2 ==
    Min({distance2(arg.grid, arg.x, arg.y, c) : c \in Cells(arg.grid)})

\* C20: nearestGridpoint returns the grid cell at minimum distance from the
\* target, with zero distance when the target is exactly a cell centre, and
\* fails with the outside-domain error when the minimum distance over all
\* cells exceeds min(DX, DY) / 2.
C20_NearestGridpoint ==
    (op = "nearestGridpoint") =>
        LET spacing == Min({arg.grid.dx, arg.grid.dy})
        IN  /\ 4 * MinDistance2 > spacing * spacing
                => IsErr(result) /\ result.exc = "OutsideDomain"
            /\ 4 * MinDistance2 <= spacing * spacing
                => /\ IsOk(result)
                   /\ result.val.cell \in Cells(arg.grid)
                   /\ result.val.distance2 = MinDistance2
                   /\ distance2(arg.grid, arg.x, arg.y, result.val.cell)
                      = MinDistance2
            /\ \A c \in Cells(arg.grid) :
                (arg.x = c[1] * arg.grid.dx /\ arg.y = c[2] * arg.grid.dy)
                => result = Ok([cell |-> c, distance2 |-> 0])

\* A target off the centres, nearer than half of the smaller spacing to a
\* cell that is not the first one, on a grid whose spacings differ.
C20_Witness ==
    /\ op = "nearestGridpoint"
    /\ arg.grid.dx # arg.grid.dy
    /\ IsOk(result)
    /\ result.val.cell # <<0, 0>>
    /\ result.val.distance2 > 0

(***************************************************************************)
(* C23, C24: the extrapolation levels of the sea-level pressure            *)
(***************************************************************************)
\* The whole pressure the level search of sea_level_pressure works on.
SearchedPressure == WRFAtmPressure(dataset, <<Full>>)

\* The level search raises no error: the pressure is evaluated and every
\* column has a level below the threshold.
LevelSearchPasses ==
    /\ IsOk(SearchedPressure.out)
    /\ \A time \in 0..(SearchedPressure.out.val.shape[1] - 1) :
        levels_below(SearchedPressure.out.val, time) # {}

\* C23: whenever the level search of sea_level_pressure raises no error,
\* the two extrapolation levels of every column are adjacent and bracket
\* the threshold: idx_high = idx_low + 1 and
\* pressure[idx_low] >= p_bottom - 10000 > pressure[idx_high]; the error
\* "Levels for extrapolation are equal." is never raised.
C23_AdjacentLevels ==
    (op = "sea_level_pressure") =>
        /\ result # Err("ValueError", "Levels for extrapolation are equal.")
        /\ LevelSearchPasses =>
            \A time \in 0..(SearchedPressure.out.val.shape[1] - 1) :
                LET p == SearchedPressure.out.val
                    low == idx_low(Min(levels_below(p, time)))
                    high == idx_high(low, sizes_bottom_top(dataset))
                IN  /\ high = low + 1
                    /\ p.data[<<time, low>>] >= p.data[<<time, 0>>] - 10000
                    /\ p.data[<<time, 0>>] - 10000 > p.data[<<time, high>>]

\* C23's case: the method went past the level search on a dataset of
\* which a column has its upper extrapolation level at the top of the
\* model, and on which the lower one is above the bottom.
C23_Witness ==
    /\ op = "sea_level_pressure"
    /\ result = Ok(None)
    /\ LevelSearchPasses
    /\ \E time \in 0..(SearchedPressure.out.val.shape[1] - 1) :
        /\ idx_low(Min(levels_below(SearchedPressure.out.val, time))) > 0
        /\ idx_high(
             idx_low(Min(levels_below(SearchedPressure.out.val, time))),
             sizes_bottom_top(dataset))
           = sizes_bottom_top(dataset) - 1

\* C24: when sea_level_pressure computes the elevation, z_low is the
\* destaggered geopotential height at level idx_low and z_high the one at
\* level idx_high, the levels used for p_low / p_high, q_low / q_high and
\* t_low / t_high.
C24_ElevationLevels ==
    (op = "sea_level_pressure" /\ result = Ok(None)) =>
        \A time \in 0..(SearchedPressure.out.val.shape[1] - 1) :
            LET taken == slp_taken(sizes_bottom_top(dataset),
                                   SearchedPressure.out.val, time)
            IN  /\ taken.z_low = taken.p_low
                /\ taken.z_high = taken.p_high
                /\ slp_z_low(dataset, time)
                   = slp_z(dataset)[<<time, taken.p_low>>]
                /\ slp_z_high(dataset, time)
                   = slp_z(dataset)[<<time, taken.p_high>>]

(***************************************************************************)
(* Claims on the compilation script                                        *)
(***************************************************************************)
\* The options whose value get_options pre-processes into a path.
PathOptions == {"destination", "patches", "sources"}

\* The value the command line gives option o: a boolean for the boolean
\* options, the text for the others.
CommandLineValue(o) ==
    IF o \in BooleanOptions
      THEN (IF script.argv[o] \in {"yes", "True"} THEN OptTrue ELSE OptFalse)
      ELSE script.argv[o]

\* The option file is read and defines option o.
FileDefines(o) ==
    /\ "optfile" \in DOMAIN script.argv
    /\ script.content.kind = "dict"
    /\ o \in DOMAIN script.content.items

\* The value of option o by priority: command line, option file, default.
ByPriority(o) ==
    IF o \in DOMAIN script.argv THEN CommandLineValue(o)
    ELSE IF FileDefines(o) THEN script.content.items[o]
    ELSE ParserDefaults[o]

\* The option file is read and is no dictionary or names an option the
\* parser does not have.
BadOptionFile ==
    /\ "optfile" \in DOMAIN script.argv
    /\ \/ script.content.kind # "dict"
       \/ \E o \in DOMAIN script.content.items : o \notin DOMAIN ParserDefaults

\* C21: command-line arguments have priority over the option file: every
\* option get_options returns has the command-line value when the command
\* line gives it, otherwise the option file's value when the file defines
\* it, otherwise the built-in default (made an absolute path for the path
\* options, a list for the components); with an option file that is not a
\* JSON dictionary or that names an unknown option get_options fails.
C21_CommandLineFirst ==
    (op = "get_options") =>
        /\ BadOptionFile => (IsErr(result) /\ result.exc = "ValueError")
        /\ IsOk(result) =>
            \A o \in DOMAIN ParserDefaults :
                script.opts[o] =
                    IF o \in PathOptions THEN process_path(ByPriority(o))
                    ELSE IF o = "components"
                      THEN split_components(ByPriority(o))
                    ELSE ByPriority(o)

\* C21's case: get_options returned options of which one is given both
\* on the command line and in the file, one in the file only and one
\* nowhere.
C21_Witness ==
    /\ op = "get_options"
    /\ IsOk(result)
    /\ "patches" \in DOMAIN script.argv /\ FileDefines("patches")
    /\ "dry" \notin DOMAIN script.argv /\ FileDefines("dry")
    /\ "sources" \notin DOMAIN script.argv /\ ~FileDefines("sources")
    /\ script.opts.patches = "/cwd/patches"
    /\ script.opts.dry = OptTrue

DestinationExists == Err("RuntimeError", "Destination directory already exists.")

\* C22: clone_and_checkout raises RuntimeError when the destination
\* already exists, before any git command is run; the script then takes no
\* later step (compile.json, the patches, the extra sources, compile.job
\* and the launch never happen) and the destination is left as it was.
C22_ExistingDestination ==
    [][/\ (script.pc = "clone_and_checkout" /\ script.exists) =>
            /\ result' = DestinationExists
            /\ script'.pc = "raised"
            /\ script'.commands = <<>>
            /\ script'.tree = script.tree
            /\ script'.exists
       /\ (result = DestinationExists) => (script' = script)]_vars

\* C22's case: clone_and_checkout ran on a destination that exists.
C22_Witness ==
    /\ op = "clone_and_checkout"
    /\ result = DestinationExists
    /\ script.tree = ExistingTree
    /\ script.commands = <<>>

\* The commands of cmds that are the one named name.
Running(cmds, name) == {k \in DOMAIN cmds : cmds[k][1] = name}

\* Nothing for process_patches to apply: the option is unset or find
\* prints no file.
NoPatch == script.opts.patches = OptNone \/ script.patch_files = <<>>

\* Nothing for process_extra_sources to copy.
NoSource == script.opts.sources = OptNone \/ script.source_files = <<>>

\* The call raised because a command exited with a non-zero code.
CommandFailed == IsErr(result) /\ result.exc = "RuntimeError"

\* C25: process_patches and process_extra_sources act only on the files
\* that exist: when the patches (resp. sources) option is unset, or when
\* find succeeds and the directory holds no matching file, the function
\* returns normally, without running patch (resp. cp) and without raising.
C25_NothingToApply ==
    /\ (op = "process_patches" /\ NoPatch /\ ~CommandFailed) =>
        /\ result = Ok(None)
        /\ Running(script.commands, "patch") = {}
    /\ (op = "process_extra_sources" /\ NoSource /\ ~CommandFailed) =>
        /\ result = Ok(None)
        /\ Running(script.commands, "cp") = {}

\* The calls of the main part of the script, in the order of the code.
MainOrder ==
    <<"identify_host_platform", "get_options", "clone_and_checkout",
      "write_options", "process_patches", "process_extra_sources",
      "write_job_script", "launch">>

\* The commands run so far that launch the job.
Launches ==
    Running(script.commands, "./compile.job")
    \cup Running(script.commands, "sbatch")

\* C26: the script takes its steps in the fixed order clone/checkout,
\* write compile.json, apply patches, copy extra sources, write
\* compile.job, launch; with the dry option true it stops once compile.job
\* is written and never launches the job, neither directly nor through the
\* scheduler; with dry false a script that reaches its end has launched
\* the job exactly once, through the scheduler when scheduler is true and
\* directly otherwise.
C26_PipelineOrder ==
    (script.pc # "none") =>
        /\ Len(script.steps) <= Len(MainOrder)
        /\ script.steps = SubSeq(MainOrder, 1, Len(script.steps))
        /\ \/ script.pc \in {"raised", "exit"}
           \/ script.pc = MainOrder[Len(script.steps) + 1]
        /\ script.pc = "exit" => Len(script.steps) = Len(MainOrder)
        /\ script.commands # <<>> => Len(script.steps) >= 3
        /\ "compile.json" \in script.tree => Len(script.steps) >= 4
        /\ Running(script.commands, "patch") # {} =>
            /\ Len(script.steps) >= 5
            /\ "compile.json" \in script.tree
        /\ Running(script.commands, "cp") # {} =>
            /\ Len(script.steps) >= 6
            /\ \A i \in Running(script.commands, "patch") :
                \A j \in Running(script.commands, "cp") : i < j
        /\ "compile.job" \in script.tree =>
            /\ Len(script.steps) >= 7
            /\ \A j \in Running(script.commands, "cp") :
                \A k \in Running(script.commands, "chmod") : j < k
        /\ Launches # {} =>
            /\ Launches = {Len(script.commands)}
            /\ Len(script.steps) = Len(MainOrder)
            /\ "compile.job" \in script.tree
        /\ (script.opts # NoScript /\ script.opts.dry = OptTrue) =>
            /\ Launches = {}
            /\ script.pc = "exit" =>
                /\ op = "launch"
                /\ "compile.job" \in script.tree
        /\ (script.pc = "exit" /\ script.opts.dry = OptFalse) =>
            /\ Cardinality(Launches) = 1
            /\ script.commands[Len(script.commands)] =
                IF script.opts.scheduler = OptTrue
                  THEN <<"sbatch", "compile.job">>
                  ELSE <<"./compile.job">>

\* C26's case: a script that ended after it applied a patch, copied an
\* extra source and launched the job through the scheduler.
C26_Witness ==
    /\ script.pc = "exit"
    /\ script.opts.dry = OptFalse
    /\ script.opts.scheduler = OptTrue
    /\ Running(script.commands, "patch") # {}
    /\ Running(script.commands, "cp") # {}
    /\ Running(script.commands, "sbatch") # {}

====
